---- MODULE Spec2Model ----
(***************************************************************************)
(* Model of the chat backend: ChatService (message ledger and read         *)
(* receipts over two repositories), ChatGateway (realtime fan-out over     *)
(* socket.io) and the conversation registry (MockConversationService with  *)
(* the conversation utilities it calls).                                   *)
(***************************************************************************)
EXTENDS Integers, Sequences, FiniteSets, TLC

\* ------------------------------------------------------------------ bounds
MaxClock == 2
MaxMessages == 2
MaxReadCalls == 2
NumProcs == 2
MaxConversations == 1
MaxListLen == 2
MaxRoster == 9
MaxStored == 1
MaxUnread == 2
MaxAgents == 2
MaxDevices == 2
MaxIdle == 3
MaxLoad == 2
MaxAssignments == 4

\* --------------------------------------------------------- program constants
\* the chat id getChatHistory answers with [] without looking at the store
EmptyChatTest == 0
\* nanoseconds per millisecond: Date values are whole milliseconds
NsPerMs == 1000000
\* the longest content validateMessageInput lets through
MaxContentLength == 10000
\* the chat id 'invalid-chat-id-that-does-not-exist'
InvalidChatId == -1
\* a chat id of white space only
BlankChatId == -2
\* lastReadMessageId: null
NullMessageId == 0
\* PRESENCE_THRESHOLDS.AWAY_THRESHOLD, in milliseconds
AwayThreshold == 300000
\* PRESENCE_THRESHOLDS.OFFLINE_THRESHOLD, in milliseconds
OfflineThreshold == 600000
\* 'non-existent-user-uuid', as its characters
NonExistentUserUuid ==
  <<"n", "o", "n", "-", "e", "x", "i", "s", "t", "e", "n", "t", "-", "u", "s", "e", "r", "-", "u", "u", "i", "d">>

Procs == 1..NumProcs
Users == {"alice", "bob", "charlie"}
Sessions == {"s1", "s2"}
\* the user behind each realtime client: a device of alice and one of bob
SessionUser == [s \in Sessions |-> IF s = "s1" THEN "alice" ELSE "bob"]
ConvIds == 1..MaxConversations
ChatIds == {EmptyChatTest} \cup ConvIds
Senders == {"alice", "charlie"}
Readers == {"bob", "charlie"}
Contents == {"Hello"}
\* Math.random() * 0.001 ms, in nanoseconds: a value in [0, 1000)
RandomNs == {0, 999}

VARIABLES
  now,            \* Date.now(), in milliseconds
  messages,       \* messageRepository: rows in commit order
  reads,          \* messageReadRepository: rows in commit order
  chatGateway,    \* ChatService.chatGateway is set
  connected,      \* sockets connected to the socket.io server
  inbox,          \* events sent to each socket, in order
  emitted,        \* every server.emit so far, with the sockets it went to
  task,           \* position of each in-flight request
  conversations,  \* MockConversationService.conversations
  participants,   \* MockConversationService.participants
  last            \* the step taken last, with its outcome

chatVars == <<now, messages, reads, chatGateway, connected, inbox, emitted, task>>
convVars == <<conversations, participants>>
vars == <<now, messages, reads, chatGateway, connected, inbox, emitted, task,
          conversations, participants, last>>

Idle == [pc |-> "idle"]

\* ------------------------------------------------------------ helpers
Range(s) == {s[i] : i \in 1..Len(s)}

Includes(s, x) == \E i \in 1..Len(s) : s[i] = x

\* new Date(v): TimeClip truncates the time value to whole milliseconds
NewDate(ns) == ns \div NsPerMs

\* new Date(Date.now() + Math.random() * 0.001)
SendTimestamp(t, rnd) == NewDate(t * NsPerMs + rnd)

\* @PrimaryGeneratedColumn('uuid'): a fresh id for every inserted row
NewMessageId == Len(messages) + 1

NewReadId == Len(reads) + 1

\* a broadcast that leaves out the sockets of the message's sender
ServerEmitToOthers(inb, conn, ev) ==
  [s \in Sessions |->
     IF s \in conn /\ ~(ev.type = "message" /\ SessionUser[s] = ev.senderUuid)
       THEN Append(inb[s], ev) ELSE inb[s]]

\* server.emit(name, payload): one copy to every connected socket
ServerEmit(inb, conn, ev) ==
  [s \in Sessions |-> IF s \in conn THEN Append(inb[s], ev) ELSE inb[s]]

\* number of sendMessage calls started so far
SendsStarted ==
  Len(messages) + Cardinality({p \in Procs : task[p].pc = "send_save"})

\* number of markAsRead calls that went on to save a receipt
ReadsStarted ==
  Len(reads) + Cardinality({p \in Procs : task[p].pc = "mark_save"})

\* ------------------------------------------------------------ Init
Init ==
  /\ now = 0
  /\ messages = <<>>
  /\ reads = <<>>
  /\ chatGateway = FALSE
  /\ connected = {}
  /\ inbox = [s \in Sessions |-> <<>>]
  /\ emitted = <<>>
  /\ task = [p \in Procs |-> Idle]
  /\ conversations = <<>>
  /\ participants = <<>>
  /\ last = [op |-> "init"]

\* ------------------------------------------------------------ clock
Tick ==
  /\ now < MaxClock
  /\ now' = now + 1
  /\ last' = [op |-> "tick"]
  /\ UNCHANGED <<messages, reads, chatGateway, connected, inbox, emitted, task>>
  /\ UNCHANGED convVars

\* ------------------------------------------------------------ ChatGateway
AfterInit ==
  /\ ~chatGateway
  /\ chatGateway' = TRUE
  /\ last' = [op |-> "afterInit"]
  /\ UNCHANGED <<now, messages, reads, connected, inbox, emitted, task>>
  /\ UNCHANGED convVars

HandleConnection(s) ==
  /\ chatGateway
  /\ s \notin connected
  /\ connected' = connected \cup {s}
  /\ last' = [op |-> "handleConnection", session |-> s]
  /\ UNCHANGED <<now, messages, reads, chatGateway, inbox, emitted, task>>
  /\ UNCHANGED convVars

HandleDisconnect(s) ==
  /\ s \in connected
  /\ connected' = connected \ {s}
  /\ last' = [op |-> "handleDisconnect", session |-> s]
  /\ UNCHANGED <<now, messages, reads, chatGateway, inbox, emitted, task>>
  /\ UNCHANGED convVars

\* emitMessage / emitReadReceipt: this.server.emit(name, payload)
Emit(ev) ==
  /\ inbox' = ServerEmit(inbox, connected, ev)
  /\ emitted' = Append(emitted, [ev |-> ev, to |-> connected])

\* ------------------------------------------------------------ sendMessage
\* messageRepository.create({... timestamp ...}) and the call of save()
CreateMessage(p, chatId, sender, content) ==
  /\ task[p].pc = "idle"
  /\ SendsStarted < MaxMessages
  /\ \E rnd \in RandomNs :
       task' = [task EXCEPT ![p] =
                  [pc |-> "send_save",
                   message |-> [chatId |-> chatId, senderUuid |-> sender,
                                content |-> content,
                                timestamp |-> SendTimestamp(now, rnd)]]]
  /\ UNCHANGED <<now, messages, reads, chatGateway, connected, inbox, emitted>>
  /\ UNCHANGED convVars

\* ChatService.sendMessage called directly, up to the call of save()
SendCreate(p, chatId, sender, content) ==
  /\ last' = [op |-> "sendCreate", proc |-> p]
  /\ CreateMessage(p, chatId, sender, content)

\* the store commits the insert and generates the id
SendSave(p) ==
  /\ task[p].pc = "send_save"
  /\ LET saved == [id |-> NewMessageId] @@ task[p].message
     IN /\ messages' = Append(messages, saved)
        /\ task' = [task EXCEPT ![p] = [pc |-> "send_emit", savedMessage |-> saved]]
  /\ last' = [op |-> "sendSave", proc |-> p]
  /\ UNCHANGED <<now, reads, chatGateway, connected, inbox, emitted>>
  /\ UNCHANGED convVars

\* the payload built from the entity as it was before save(), without its id
MessageEventUnsaved(m) ==
  [type |-> "message", id |-> 0, chatId |-> m.chatId,
   senderUuid |-> m.senderUuid, content |-> m.content, timestamp |-> m.timestamp]

\* the payload sendMessage hands to emitMessage
MessageEvent(m) ==
  [type |-> "message", id |-> m.id, chatId |-> m.chatId,
   senderUuid |-> m.senderUuid, content |-> m.content, timestamp |-> m.timestamp]

\* after the await: emit to the gateway when it is set, then return
SendEmit(p) ==
  /\ task[p].pc = "send_emit"
  /\ IF chatGateway
       THEN Emit(MessageEvent(task[p].savedMessage))
       ELSE UNCHANGED <<inbox, emitted>>
  /\ task' = [task EXCEPT ![p] = Idle]
  /\ last' = [op |-> "sendMessage", proc |-> p, status |-> "sent",
              messageId |-> task[p].savedMessage.id, emittedEvent |-> chatGateway]
  /\ UNCHANGED <<now, messages, reads, chatGateway, connected>>
  /\ UNCHANGED convVars

\* ------------------------------------------------------------ ChatController
\* strings the controller looks into are sequences of characters
Digits == {"0", "1", "2", "3", "4", "5", "6", "7", "8", "9"}

LowerCase ==
  <<"a", "b", "c", "d", "e", "f", "g", "h", "i", "j", "k", "l", "m",
    "n", "o", "p", "q", "r", "s", "t", "u", "v", "w", "x", "y", "z">>

UpperCase ==
  <<"A", "B", "C", "D", "E", "F", "G", "H", "I", "J", "K", "L", "M",
    "N", "O", "P", "Q", "R", "S", "T", "U", "V", "W", "X", "Y", "Z">>

\* [0-9a-f] under the i flag
HexDigits ==
  Digits \cup {LowerCase[k] : k \in 1..6} \cup {UpperCase[k] : k \in 1..6}

\* [a-zA-Z0-9-]
TestUuidChars == Digits \cup Range(LowerCase) \cup Range(UpperCase) \cup {"-"}

\* the characters String.prototype.trim() strips
Whitespace == {" ", "\t", "\n", "\r"}

Min(S) == CHOOSE x \in S : \A y \in S : x <= y

\* the character a case-insensitive match compares
ToLower(c) ==
  IF \E k \in 1..26 : UpperCase[k] = c
    THEN LowerCase[CHOOSE k \in 1..26 : UpperCase[k] = c]
    ELSE c

\* /^[0-9a-f]{8}-[0-9a-f]{4}-[0-9a-f]{4}-[0-9a-f]{4}-[0-9a-f]{12}$/i
UuidRegex(uuid) ==
  /\ Len(uuid) = 36
  /\ \A i \in 1..36 :
       IF i \in {9, 14, 19, 24} THEN uuid[i] = "-" ELSE uuid[i] \in HexDigits

\* /^uuid-[a-zA-Z0-9-]+$/
TestUuidRegex(uuid) ==
  /\ Len(uuid) >= 6
  /\ SubSeq(uuid, 1, 5) = <<"u", "u", "i", "d", "-">>
  /\ \A i \in 6..Len(uuid) : uuid[i] \in TestUuidChars

IsValidUUID(uuid) == UuidRegex(uuid) \/ TestUuidRegex(uuid)

\* content.trim(): the content without the white space at its two ends
Trim(content) ==
  LET n == Len(content)
      lead == CHOOSE k \in 0..n :
                /\ \A j \in 1..k : content[j] \in Whitespace
                /\ k < n => content[k + 1] \notin Whitespace
      trail == CHOOSE k \in 0..n :
                 /\ \A j \in (n - k + 1)..n : content[j] \in Whitespace
                 /\ k < n => content[n - k] \notin Whitespace
  IN IF lead = n THEN <<>> ELSE SubSeq(content, lead + 1, n - trail)

\* the field is set to a non-empty string: the truthiness the checks test
Given(messageData, field) ==
  field \in DOMAIN messageData /\ messageData[field] # <<>>

\* a length check that refuses content of exactly the limit
ContentAtLimitTooLong(content) == Len(content) >= MaxContentLength

\* messageData.content.length > 10000
ContentTooLong(content) == Len(content) > MaxContentLength

\* !chatId || chatId.trim() === ''
ChatIdIsBlank(chatId) == chatId = BlankChatId

\* the checks with the format of the sender's UUID tested before its existence
ValidateFormatFirst(messageData, chatId) ==
  IF ~Given(messageData, "senderUuid") \/ ~IsValidUUID(messageData.senderUuid)
    THEN "Invalid user UUID format"
  ELSE IF messageData.senderUuid = NonExistentUserUuid
    THEN "User not found"
  ELSE IF ~Given(messageData, "content") \/ Trim(messageData.content) = <<>>
    THEN "Message content is required and cannot be empty"
  ELSE IF ContentTooLong(messageData.content)
    THEN "Message content is too long. Maximum 10,000 characters allowed"
  ELSE IF ChatIdIsBlank(chatId)
    THEN "Invalid chat ID"
  ELSE IF chatId = InvalidChatId
    THEN "Chat not found"
  ELSE ""

\* validateMessageInput, its checks: "" or the message of the exception
ValidateMessageInput(messageData, chatId) ==
  IF "senderUuid" \in DOMAIN messageData /\ messageData.senderUuid = NonExistentUserUuid
    THEN "User not found"
  ELSE IF ~Given(messageData, "senderUuid") \/ ~IsValidUUID(messageData.senderUuid)
    THEN "Invalid user UUID format"
  ELSE IF ~Given(messageData, "content") \/ Trim(messageData.content) = <<>>
    THEN "Message content is required and cannot be empty"
  ELSE IF ContentTooLong(messageData.content)
    THEN "Message content is too long. Maximum 10,000 characters allowed"
  ELSE IF ChatIdIsBlank(chatId)
    THEN "Invalid chat ID"
  ELSE IF chatId = InvalidChatId
    THEN "Chat not found"
  ELSE ""

OpenTag == <<"<", "s", "c", "r", "i", "p", "t">>

CloseTag == <<"<", "/", "s", "c", "r", "i", "p", "t", ">">>

\* the word stands at place i of the content, in either case of its letters
MatchesAt(content, i, word) ==
  /\ i + Len(word) - 1 <= Len(content)
  /\ content[i] = word[1]
  /\ \A k \in 2..Len(word) : ToLower(content[i + k - 1]) = word[k]

\* the place where a match of /<script[^>]*>[\s\S]*?<\/script>/i that starts
\* at place i ends, or 0 when none starts there: the tag runs to the first
\* '>' and the match to the end of the first '</script>' after it
ScriptEnd(content, i) ==
  IF ~MatchesAt(content, i, OpenTag) THEN 0
  ELSE LET closing == {j \in (i + 7)..Len(content) : content[j] = ">"}
       IN IF closing = {} THEN 0
          ELSE LET ends == {j \in (Min(closing) + 1)..Len(content) :
                              MatchesAt(content, j, CloseTag)}
               IN IF ends = {} THEN 0 ELSE Min(ends) + Len(CloseTag) - 1

RECURSIVE SanitizeFrom(_, _)
\* the g flag: the leftmost match from place i on is dropped and the rest of
\* the content is searched from the end of the match
SanitizeFrom(content, i) ==
  LET starts == {k \in i..Len(content) : ScriptEnd(content, k) # 0}
  IN IF starts = {} THEN SubSeq(content, i, Len(content))
     ELSE SubSeq(content, i, Min(starts) - 1)
            \o SanitizeFrom(content, ScriptEnd(content, Min(starts)) + 1)

\* sanitizeContent: content.replace(/<script[^>]*>[\s\S]*?<\/script>/gi, '')
SanitizeContent(content) == SanitizeFrom(content, 1)

\* a run of n equal characters: 'A'.repeat(n)
Repeated(c, n) == [i \in 1..n |-> c]

\* TEST_USERS.ALICE.uuid
TestUuid == <<"u", "u", "i", "d", "-", "1", "2", "3">>

\* a UUID in the 8-4-4-4-12 form
HexUuid ==
  <<"0", "1", "2", "3", "4", "5", "6", "7", "-", "8", "9", "a", "b", "-",
    "C", "D", "E", "F", "-", "0", "1", "2", "3", "-",
    "4", "5", "6", "7", "8", "9", "a", "b", "c", "d", "e", "f">>

MalformedUuid == <<"u", "s", "e", "r", " ", "1">>

\* the senders a request names
RequestSenders == {NonExistentUserUuid, MalformedUuid, TestUuid, HexUuid}

\* a script element whose opening tag is split by another script element:
\* '<scr<script></script>ipt>x</script>'
NestedScript ==
  <<"<", "s", "c", "r">>
    \o OpenTag \o <<">">> \o CloseTag
    \o <<"i", "p", "t", ">", "x">> \o CloseTag

\* content that is a script element and nothing else: '<script>x</script>'
OnlyScript == OpenTag \o <<">", "x">> \o CloseTag

\* the contents a request carries
RequestContents ==
  { <<>>, <<" ">>, <<"x">>, <<"H", "i">>,
    <<"<", "S", "c", "r", "i", "p", "t", " ", "x", ">", "a", "<", "/", "s", "c",
      "r", "i", "p", "t", ">", "H", "i">>,
    NestedScript, OnlyScript,
    Repeated("A", MaxContentLength), Repeated("A", MaxContentLength + 1) }

\* the request bodies: with both fields, without content, without sender
MessageInputs ==
  {[senderUuid |-> u, content |-> c] : u \in RequestSenders, c \in RequestContents}
    \cup {[senderUuid |-> u] : u \in RequestSenders}
    \cup {[content |-> c] : c \in RequestContents}

\* the chat ids of the route
RequestChatIds == ChatIds \cup {BlankChatId, InvalidChatId}

\* the route that calls the service before it validates the request
PostMessageSendsFirst(p, chatId, messageData) ==
  LET error == ValidateMessageInput(messageData, chatId)
  IN /\ last' = [op |-> "postMessage", chatId |-> chatId,
                 messageData |-> messageData, error |-> error]
     /\ CreateMessage(p, chatId,
                      IF "senderUuid" \in DOMAIN messageData
                        THEN messageData.senderUuid ELSE <<>>,
                      IF "content" \in DOMAIN messageData
                        THEN messageData.content ELSE <<>>)

\* POST :chatId/messages: validateMessageInput throws, or the content is
\* sanitized and ChatService.sendMessage runs up to its call of save()
PostMessage(p, chatId, messageData) ==
  LET error == ValidateMessageInput(messageData, chatId)
  IN IF error # ""
       THEN /\ last' = [op |-> "postMessage", chatId |-> chatId,
                        messageData |-> messageData, error |-> error]
            /\ UNCHANGED chatVars
            /\ UNCHANGED convVars
       ELSE /\ last' = [op |-> "postMessage", chatId |-> chatId,
                        messageData |-> messageData, error |-> ""]
            /\ CreateMessage(p, chatId, messageData.senderUuid,
                             SanitizeContent(messageData.content))

\* ------------------------------------------------------------ markAsRead
\* the lookup keyed by the receipt's own id instead of its messageId
ExistingReadById(messageId, readerUuid) ==
  \E i \in 1..Len(reads) :
    reads[i].id = messageId /\ reads[i].readerUuid = readerUuid /\ reads[i].messageId # messageId

\* messageReadRepository.findOne({ where: { messageId, readerUuid } })
ExistingRead(messageId, readerUuid) ==
  \E i \in 1..Len(reads) :
    reads[i].messageId = messageId /\ reads[i].readerUuid = readerUuid

\* the findOne and the branch on its result; a found receipt ends the call
MarkFind(p, messageId, readerUuid) ==
  /\ task[p].pc = "idle"
  /\ IF ExistingRead(messageId, readerUuid)
       THEN /\ task' = task
            /\ last' = [op |-> "markAsRead", proc |-> p, status |-> "read",
                        messageId |-> messageId, readerUuid |-> readerUuid,
                        created |-> FALSE]
       ELSE /\ ReadsStarted < MaxReadCalls
            /\ task' = [task EXCEPT ![p] =
                          [pc |-> "mark_save", messageId |-> messageId,
                           readerUuid |-> readerUuid]]
            /\ last' = [op |-> "markFind", proc |-> p]
  /\ UNCHANGED <<now, messages, reads, chatGateway, connected, inbox, emitted>>
  /\ UNCHANGED convVars

\* the store commits the receipt; @CreateDateColumn sets readAt
MarkSave(p) ==
  /\ task[p].pc = "mark_save"
  /\ LET row == [id |-> NewReadId, messageId |-> task[p].messageId,
                 readerUuid |-> task[p].readerUuid, readAt |-> now]
     IN /\ reads' = Append(reads, row)
        /\ task' = [task EXCEPT ![p] = [pc |-> "mark_emit", messageRead |-> row]]
  /\ last' = [op |-> "markSave", proc |-> p]
  /\ UNCHANGED <<now, messages, chatGateway, connected, inbox, emitted>>
  /\ UNCHANGED convVars

ReadReceiptEvent(r) ==
  [type |-> "read-receipt", messageId |-> r.messageId,
   readerUuid |-> r.readerUuid, readAt |-> r.readAt]

MarkEmit(p) ==
  /\ task[p].pc = "mark_emit"
  /\ IF chatGateway
       THEN Emit(ReadReceiptEvent(task[p].messageRead))
       ELSE UNCHANGED <<inbox, emitted>>
  /\ task' = [task EXCEPT ![p] = Idle]
  /\ last' = [op |-> "markAsRead", proc |-> p, status |-> "read",
              messageId |-> task[p].messageRead.messageId,
              readerUuid |-> task[p].messageRead.readerUuid,
              created |-> TRUE]
  /\ UNCHANGED <<now, messages, reads, chatGateway, connected>>
  /\ UNCHANGED convVars

\* ------------------------------------------------------------ getChatHistory
\* indices of the rows of one chat
ChatRows(chatId) == {i \in 1..Len(messages) : messages[i].chatId = chatId}

\* find({ where: { chatId }, order: { timestamp: 'ASC' } }): the rows of the
\* chat sorted by timestamp; rows with equal timestamps come in any order
FindOrdered(chatId) ==
  LET rows == ChatRows(chatId)
      n == Cardinality(rows)
  IN {o \in [1..n -> rows] :
        /\ \A i, j \in 1..n : i # j => o[i] # o[j]
        /\ \A i \in 1..n : i < n =>
             messages[o[i]].timestamp <= messages[o[i + 1]].timestamp}

\* the grouping that keeps for each message only the reader of its first receipt
ReadersOfFirstReceipt(messageId) ==
  LET rows == {j \in 1..Len(reads) : reads[j].messageId = messageId}
  IN IF rows = {} THEN {} ELSE {reads[Min(rows)].readerUuid}

\* the keys of readsByMessage[msg.id]: every reader with a receipt of the message
ReadersOf(messageId) ==
  {reads[i].readerUuid : i \in {j \in 1..Len(reads) : reads[j].messageId = messageId}}

ReadAtOf(messageId, readerUuid) ==
  {reads[i].readAt : i \in {j \in 1..Len(reads) :
      reads[j].messageId = messageId /\ reads[j].readerUuid = readerUuid}}

\* readsByMessage[msg.id]: one readAt per reader; with several receipts of
\* one pair the receipt that find() lists last wins, and find() has no order
ReadByChoices(messageId) ==
  {f \in [ReadersOf(messageId) -> 0..MaxClock] :
     \A u \in ReadersOf(messageId) : f[u] \in ReadAtOf(messageId, u)}

\* the hardcoded answer for a chat without stored messages
FallbackHistory ==
  << [id |-> -1, senderUuid |-> "uuid-456", content |-> "Hello there!", timestamp |-> now],
     [id |-> -2, senderUuid |-> "uuid-123", content |-> "Hi back!", timestamp |-> now] >>

HistoryEntry(m, readBy) ==
  [id |-> m.id, senderUuid |-> m.senderUuid, content |-> m.content,
   timestamp |-> m.timestamp, readBy |-> readBy]

\* every answer getChatHistory(chatId) can give in the current state
ChatHistory(chatId) ==
  IF chatId = EmptyChatTest THEN {<<>>}
  ELSE IF ChatRows(chatId) = {} THEN {FallbackHistory}
  ELSE LET ids == {messages[i].id : i \in ChatRows(chatId)}
           allReadBy == UNION {ReadByChoices(id) : id \in ids}
       IN {[k \in 1..Len(o) |-> HistoryEntry(messages[o[k]], rb[messages[o[k]].id])] :
             o \in FindOrdered(chatId),
             rb \in {g \in [ids -> allReadBy] : \A id \in ids : g[id] \in ReadByChoices(id)}}

GetChatHistory(chatId) ==
  /\ \E h \in ChatHistory(chatId) :
       last' = [op |-> "getChatHistory", chatId |-> chatId, result |-> h]
  /\ UNCHANGED chatVars
  /\ UNCHANGED convVars

\* ------------------------------------------------------------ conversation utilities
ConversationTypes == {"direct", "group", "business"}

\* the participant lists createConversation is called with
ParticipantLists == UNION {[1..n -> Users] : n \in 0..MaxListLen}

\* conversation ids callers use: the stored ones and one that is never stored
AnyConvIds == 1..(MaxConversations + 1)

\* the users of the capacity tests, in the order the tests list them
Roster ==
  <<"alice", "bob", "charlie", "diana", "user-5", "user-6", "user-7", "user-8",
    "user-9", "user-10">>

\* the first n users of the roster
Prefix(n) == SubSeq(Roster, 1, n)

\* the first n users of the roster with the first user again in the last place
Repeat(n) == [Prefix(n) EXCEPT ![n] = Roster[1]]

\* participant lists of every length up to MaxRoster, without and with a repeat
RosterLists ==
  {Prefix(n) : n \in 0..MaxRoster} \cup {Repeat(n) : n \in 2..MaxRoster}

\* the users who join and leave in the capacity tests
Joiners == {Roster[8], Roster[9]}

\* a check that sees a repeat only in neighbouring places
HasAdjacentDuplicates(list) ==
  \E i \in 1..Len(list) : i < Len(list) /\ list[i] = list[i + 1]

\* new Set(participants).size !== participants.length
HasDuplicates(list) == Cardinality(Range(list)) # Len(list)

\* the validation with the upper limit of a group one too high
ValidateCreationUpToNine(type, list) ==
  IF type = "direct" /\ Len(list) # 2
    THEN "Direct conversations must have exactly 2 participants"
  ELSE IF type = "group" /\ Len(list) < 2
    THEN "Group conversations must have at least 2 participants"
  ELSE IF type = "group" /\ Len(list) > 9
    THEN "Group conversations cannot have more than 8 participants"
  ELSE IF type = "business" /\ Len(list) < 2
    THEN "Business conversations must have at least 2 participants"
  ELSE IF HasDuplicates(list)
    THEN "Conversation cannot have duplicate participants"
  ELSE "valid"

\* validateConversationCreation: "valid" or the error text
ValidateConversationCreation(type, list) ==
  IF type = "direct" /\ Len(list) # 2
    THEN "Direct conversations must have exactly 2 participants"
  ELSE IF type = "group" /\ Len(list) < 2
    THEN "Group conversations must have at least 2 participants"
  ELSE IF type = "group" /\ Len(list) > 8
    THEN "Group conversations cannot have more than 8 participants"
  ELSE IF type = "business" /\ Len(list) < 2
    THEN "Business conversations must have at least 2 participants"
  ELSE IF HasDuplicates(list)
    THEN "Conversation cannot have duplicate participants"
  ELSE "valid"

\* the join check without the check for a user who is already in the list
CanUserJoinAgain(conversation, userUuid) ==
  IF conversation.type = "direct"
    THEN "Cannot join direct conversations"
  ELSE IF conversation.type = "group" /\ Len(conversation.participants) >= 8
    THEN "Group conversation is at maximum capacity"
  ELSE "ok"

\* canUserJoinConversation: "ok" or the reason
CanUserJoinConversation(conversation, userUuid) ==
  IF Includes(conversation.participants, userUuid)
    THEN "User is already a participant"
  ELSE IF conversation.type = "direct"
    THEN "Cannot join direct conversations"
  ELSE IF conversation.type = "group" /\ Len(conversation.participants) >= 8
    THEN "Group conversation is at maximum capacity"
  ELSE "ok"

\* the leave check without the check of the conversation's type
CanUserLeaveAnyConversation(conversation, userUuid) ==
  IF ~Includes(conversation.participants, userUuid)
    THEN "User is not a participant"
  ELSE "ok"

\* canUserLeaveConversation: "ok" or the reason
CanUserLeaveConversation(conversation, userUuid) ==
  IF ~Includes(conversation.participants, userUuid)
    THEN "User is not a participant"
  ELSE IF conversation.type = "direct"
    THEN "Cannot leave direct conversations"
  ELSE "ok"

\* an addition that puts the user in the place of the last participant
AddParticipantReplacingLast(conversation, userUuid) ==
  [conversation EXCEPT
     !.participants = [@ EXCEPT ![Len(@)] = userUuid], !.updatedAt = now]

\* addParticipantToConversation, past its own checks
AddParticipantToConversation(conversation, userUuid) ==
  [conversation EXCEPT !.participants = Append(@, userUuid), !.updatedAt = now]

Filter(list, userUuid) == SelectSeq(list, LAMBDA p : p # userUuid)

\* a removal that touches updatedAt and keeps the list
RemoveParticipantKeepsList(conversation, userUuid) ==
  [conversation EXCEPT !.updatedAt = now]

\* removeParticipantFromConversation, past its own checks
RemoveParticipantFromConversation(conversation, userUuid) ==
  [conversation EXCEPT !.participants = Filter(@, userUuid), !.updatedAt = now]

\* createTestConversation, as createDirectConversation and
\* createGroupConversation call it
CreateTestConversation(type, list) ==
  [type |-> type, participants |-> list, createdAt |-> now, updatedAt |-> now,
   archived |-> FALSE, archivedAt |-> -1, archivedBy |-> ""]

ParticipantRecord(userUuid) ==
  [userUuid |-> userUuid, joinedAt |-> now, role |-> "member", unreadCount |-> 0]

\* ------------------------------------------------------------ MockConversationService
Stored(conversationId) == conversationId \in 1..Len(conversations)

CreateConversation(type, list) ==
  LET validation == ValidateConversationCreation(type, list)
  IN /\ IF validation # "valid"
          THEN /\ last' = [op |-> "createConversation", type |-> type,
                           list |-> list, error |-> validation]
               /\ UNCHANGED convVars
        ELSE IF type = "business"
          THEN /\ last' = [op |-> "createConversation", type |-> type, list |-> list,
                           error |-> "Business conversations not implemented in this test"]
               /\ UNCHANGED convVars
        ELSE /\ Len(conversations) < MaxConversations
             /\ conversations' = Append(conversations,
                  CreateTestConversation(type,
                    IF type = "direct" THEN <<list[1], list[2]>> ELSE list))
             /\ participants' = Append(participants,
                  [i \in 1..Len(list) |-> ParticipantRecord(list[i])])
             /\ last' = [op |-> "createConversation", type |-> type, list |-> list,
                         error |-> "", id |-> Len(conversations) + 1]
     /\ UNCHANGED chatVars

\* an addition that pushes the participant record before the join check
AddParticipantRecordFirst(conversationId, userUuid) ==
  /\ IF ~Stored(conversationId)
       THEN /\ last' = [op |-> "addParticipant", id |-> conversationId,
                        user |-> userUuid, error |-> "Conversation not found"]
            /\ UNCHANGED convVars
     ELSE LET conversation == conversations[conversationId]
              joinCheck == CanUserJoinConversation(conversation, userUuid)
          IN /\ participants' = [participants EXCEPT ![conversationId] =
                   Append(@, ParticipantRecord(userUuid))]
             /\ IF joinCheck # "ok"
                  THEN /\ last' = [op |-> "addParticipant", id |-> conversationId,
                                   user |-> userUuid, error |-> joinCheck]
                       /\ UNCHANGED conversations
                  ELSE /\ conversations' = [conversations EXCEPT ![conversationId] =
                             AddParticipantToConversation(conversation, userUuid)]
                       /\ last' = [op |-> "addParticipant", id |-> conversationId,
                                   user |-> userUuid, error |-> ""]
  /\ UNCHANGED chatVars

AddParticipant(conversationId, userUuid) ==
  /\ IF ~Stored(conversationId)
       THEN /\ last' = [op |-> "addParticipant", id |-> conversationId,
                        user |-> userUuid, error |-> "Conversation not found"]
            /\ UNCHANGED convVars
     ELSE LET conversation == conversations[conversationId]
              joinCheck == CanUserJoinConversation(conversation, userUuid)
          IN IF joinCheck # "ok"
               THEN /\ last' = [op |-> "addParticipant", id |-> conversationId,
                                user |-> userUuid, error |-> joinCheck]
                    /\ UNCHANGED convVars
               ELSE /\ conversations' = [conversations EXCEPT ![conversationId] =
                          AddParticipantToConversation(conversation, userUuid)]
                    /\ participants' = [participants EXCEPT ![conversationId] =
                          Append(@, ParticipantRecord(userUuid))]
                    /\ last' = [op |-> "addParticipant", id |-> conversationId,
                                user |-> userUuid, error |-> ""]
  /\ UNCHANGED chatVars

\* a removal that updates the conversation and leaves the participant records
RemoveParticipantKeepsRecord(conversationId, userUuid) ==
  /\ IF ~Stored(conversationId)
       THEN /\ last' = [op |-> "removeParticipant", id |-> conversationId,
                        user |-> userUuid, error |-> "Conversation not found"]
            /\ UNCHANGED convVars
     ELSE LET conversation == conversations[conversationId]
              leaveCheck == CanUserLeaveConversation(conversation, userUuid)
          IN IF leaveCheck # "ok"
               THEN /\ last' = [op |-> "removeParticipant", id |-> conversationId,
                                user |-> userUuid, error |-> leaveCheck]
                    /\ UNCHANGED convVars
               ELSE /\ conversations' = [conversations EXCEPT ![conversationId] =
                          RemoveParticipantFromConversation(conversation, userUuid)]
                    /\ UNCHANGED participants
                    /\ last' = [op |-> "removeParticipant", id |-> conversationId,
                                user |-> userUuid, error |-> ""]
  /\ UNCHANGED chatVars

RemoveParticipant(conversationId, userUuid) ==
  /\ IF ~Stored(conversationId)
       THEN /\ last' = [op |-> "removeParticipant", id |-> conversationId,
                        user |-> userUuid, error |-> "Conversation not found"]
            /\ UNCHANGED convVars
     ELSE LET conversation == conversations[conversationId]
              leaveCheck == CanUserLeaveConversation(conversation, userUuid)
          IN IF leaveCheck # "ok"
               THEN /\ last' = [op |-> "removeParticipant", id |-> conversationId,
                                user |-> userUuid, error |-> leaveCheck]
                    /\ UNCHANGED convVars
               ELSE /\ conversations' = [conversations EXCEPT ![conversationId] =
                          RemoveParticipantFromConversation(conversation, userUuid)]
                    /\ participants' = [participants EXCEPT ![conversationId] =
                          SelectSeq(@, LAMBDA p : p.userUuid # userUuid)]
                    /\ last' = [op |-> "removeParticipant", id |-> conversationId,
                                user |-> userUuid, error |-> ""]
  /\ UNCHANGED chatVars

\* validateUserAccess
ValidateUserAccess(conversationId, userUuid) ==
  IF ~Stored(conversationId) THEN FALSE
  ELSE Includes(conversations[conversationId].participants, userUuid)

GetConversationWithAccessControl(conversationId, userUuid) ==
  /\ IF ~ValidateUserAccess(conversationId, userUuid)
       THEN last' = [op |-> "getConversation", id |-> conversationId, user |-> userUuid,
                     error |-> "Access denied: User is not a participant in this conversation"]
       ELSE last' = [op |-> "getConversation", id |-> conversationId, user |-> userUuid,
                     error |-> "", result |-> conversations[conversationId]]
  /\ UNCHANGED convVars
  /\ UNCHANGED chatVars

ArchiveConversation(conversationId, userUuid) ==
  /\ IF ~ValidateUserAccess(conversationId, userUuid)
       THEN /\ last' = [op |-> "archiveConversation", id |-> conversationId, user |-> userUuid,
                        error |-> "Access denied: User cannot archive conversation they do not participate in"]
            /\ UNCHANGED convVars
       ELSE /\ conversations' = [conversations EXCEPT ![conversationId] =
                  [@ EXCEPT !.archived = TRUE, !.archivedAt = now, !.archivedBy = userUuid]]
            /\ last' = [op |-> "archiveConversation", id |-> conversationId,
                        user |-> userUuid, error |-> ""]
            /\ UNCHANGED participants
  /\ UNCHANGED chatVars

\* the access check alone, without the check of conversation.archived
SendAccessErrorNoArchive(conversationId, senderUuid) ==
  IF ~ValidateUserAccess(conversationId, senderUuid)
    THEN "Access denied: User cannot send message to conversation they do not participate in"
  ELSE ""

\* the checks of sendMessageWithAccessControl: "" or the error text
SendAccessError(conversationId, senderUuid) ==
  IF ~ValidateUserAccess(conversationId, senderUuid)
    THEN "Access denied: User cannot send message to conversation they do not participate in"
  ELSE IF conversations[conversationId].archived
    THEN "Cannot send message to archived conversation"
  ELSE ""

\* sendMessageWithAccessControl: the mock message is returned, not stored
SendMessageWithAccessControl(conversationId, senderUuid, content) ==
  /\ LET error == SendAccessError(conversationId, senderUuid)
     IN IF error # ""
          THEN last' = [op |-> "sendMessageWithAccessControl", id |-> conversationId,
                        user |-> senderUuid, error |-> error]
          ELSE last' = [op |-> "sendMessageWithAccessControl", id |-> conversationId,
                        user |-> senderUuid, error |-> "", status |-> "sent",
                        content |-> content]
  /\ UNCHANGED convVars
  /\ UNCHANGED chatVars

\* ------------------------------------------------------------ specifications
SendNext ==
  \/ \E p \in Procs, c \in ChatIds, u \in Senders, t \in Contents : SendCreate(p, c, u, t)
  \/ \E p \in Procs : SendSave(p)
  \/ \E p \in Procs : SendEmit(p)

MarkNext ==
  \/ \E p \in Procs, m \in 1..MaxMessages, u \in Readers : MarkFind(p, m, u)
  \/ \E p \in Procs : MarkSave(p)
  \/ \E p \in Procs : MarkEmit(p)

\* the message ledger: concurrent sends against the clock, and history
Next ==
  \/ Tick
  \/ SendNext
  \/ \E c \in ChatIds : GetChatHistory(c)

Spec == Init /\ [][Next]_vars

\* read receipts: concurrent markAsRead calls on stored messages
ReadsNext ==
  \/ Tick
  \/ AfterInit
  \/ MarkNext

SpecReads == Init /\ [][ReadsNext]_vars

\* realtime fan-out: sockets connecting and disconnecting around sends
FanoutNext ==
  \/ AfterInit
  \/ \E s \in Sessions : HandleConnection(s)
  \/ \E s \in Sessions : HandleDisconnect(s)
  \/ SendNext
  \/ \E c \in ChatIds : GetChatHistory(c)

SpecFanout == Init /\ [][FanoutNext]_vars

\* the conversation registry: creation, membership, archiving, access checks
ConvNext ==
  \/ \E t \in ConversationTypes, l \in ParticipantLists : CreateConversation(t, l)
  \/ \E c \in AnyConvIds, u \in Users : AddParticipant(c, u)
  \/ \E c \in AnyConvIds, u \in Users : RemoveParticipant(c, u)
  \/ \E c \in AnyConvIds, u \in Users : GetConversationWithAccessControl(c, u)
  \/ \E c \in AnyConvIds, u \in Users : ArchiveConversation(c, u)
  \/ \E c \in AnyConvIds, u \in Users, t \in Contents : SendMessageWithAccessControl(c, u, t)

SpecConv == Init /\ [][ConvNext]_vars

\* the registry next to the message ledger: who may send to and read a chat;
\* a conversation of alice and bob, with charlie as the outsider
AccessNext ==
  \/ \E t \in {"direct", "group"} : CreateConversation(t, <<"alice", "bob">>)
  \/ \E c \in ConvIds, u \in Senders : GetConversationWithAccessControl(c, u)
  \/ \E c \in ConvIds, u \in Senders : ArchiveConversation(c, u)
  \/ \E c \in ConvIds, u \in Senders, t \in Contents : SendMessageWithAccessControl(c, u, t)
  \/ SendNext
  \/ \E c \in ChatIds : GetChatHistory(c)

SpecAccess == Init /\ [][AccessNext]_vars

\* group capacity: lists of every length up to MaxRoster, and the users who
\* join and leave a conversation created from one of them
GroupsNext ==
  \/ \E t \in ConversationTypes, l \in RosterLists : CreateConversation(t, l)
  \/ \E c \in AnyConvIds, u \in Joiners : AddParticipant(c, u)
  \/ \E c \in AnyConvIds, u \in Joiners : RemoveParticipant(c, u)

SpecGroups == Init /\ [][GroupsNext]_vars

\* membership: conversations of every type created from short lists of any
\* users, and any user joining and leaving them
MembersNext ==
  \/ \E t \in ConversationTypes, l \in ParticipantLists : CreateConversation(t, l)
  \/ \E c \in AnyConvIds, u \in Users : AddParticipant(c, u)
  \/ \E c \in AnyConvIds, u \in Users : RemoveParticipant(c, u)

SpecMembers == Init /\ [][MembersNext]_vars

\* archiving against the clock: a conversation of alice and bob that is
\* archived, archived again, changed and read as time passes
ArchiveNext ==
  \/ Tick
  \/ \E t \in {"direct", "group"} : CreateConversation(t, <<"alice", "bob">>)
  \/ \E c \in ConvIds, u \in Users : ArchiveConversation(c, u)
  \/ \E c \in ConvIds, u \in Users : AddParticipant(c, u)
  \/ \E c \in ConvIds, u \in Users : RemoveParticipant(c, u)
  \/ \E c \in ConvIds, u \in Users : GetConversationWithAccessControl(c, u)

SpecArchive == Init /\ [][ArchiveNext]_vars

\* the HTTP route for sending, one request at a time: a request of any kind
\* arrives at the fresh service, is validated and, when accepted, sent
InitController ==
  /\ now = 0
  /\ messages = <<>>
  /\ reads = <<>>
  /\ chatGateway = FALSE
  /\ connected = {}
  /\ inbox = [s \in Sessions |-> <<>>]
  /\ emitted = <<>>
  /\ task = [p \in Procs |-> Idle]
  /\ conversations = <<>>
  /\ participants = <<>>
  /\ \E c \in RequestChatIds, d \in MessageInputs :
       last = [op |-> "request", chatId |-> c, messageData |-> d]

\* the request that arrived is handled
PostRequest(p) ==
  /\ last.op = "request"
  /\ PostMessage(p, last.chatId, last.messageData)

ControllerNext ==
  \/ \E p \in Procs : PostRequest(p)
  \/ \E p \in Procs : SendSave(p)
  \/ \E p \in Procs : SendEmit(p)

SpecController == InitController /\ [][ControllerNext]_vars

\* receipts of a stored message: TEST_MESSAGES.READ_RECEIPT_TEST has been sent
\* to its chat, the readers mark it as read concurrently as time passes, and
\* the history of the chat is read
InitReceipts ==
  /\ now = 0
  /\ messages = << [id |-> 1, chatId |-> 1, senderUuid |-> "alice",
                    content |-> "Hello", timestamp |-> 0] >>
  /\ reads = <<>>
  /\ chatGateway = FALSE
  /\ connected = {}
  /\ inbox = [s \in Sessions |-> <<>>]
  /\ emitted = <<>>
  /\ task = [p \in Procs |-> Idle]
  /\ conversations = <<>>
  /\ participants = <<>>
  /\ last = [op |-> "init"]

ReceiptsNext ==
  \/ Tick
  \/ \E p \in Procs, u \in Readers : MarkFind(p, messages[1].id, u)
  \/ \E p \in Procs : MarkSave(p)
  \/ \E p \in Procs : MarkEmit(p)
  \/ GetChatHistory(messages[1].chatId)

SpecReceipts == InitReceipts /\ [][ReceiptsNext]_vars

\* a restart over a store that is created anew with the application
\* (dropSchema, or an in-memory database)
RestartWithEmptyStore ==
  /\ chatGateway' = FALSE
  /\ connected' = {}
  /\ task' = [p \in Procs |-> Idle]
  /\ messages' = <<>>
  /\ reads' = <<>>
  /\ last' = [op |-> "restart"]
  /\ UNCHANGED <<now, inbox, emitted>>
  /\ UNCHANGED convVars

\* restartTestApp: app.close() ends the process with its sockets and the
\* requests in flight, createTestApp() builds a new ChatService whose
\* chatGateway is unset; the tables of the database file stay as they are
Restart ==
  /\ chatGateway' = FALSE
  /\ connected' = {}
  /\ task' = [p \in Procs |-> Idle]
  /\ last' = [op |-> "restart"]
  /\ UNCHANGED <<now, messages, reads, inbox, emitted>>
  /\ UNCHANGED convVars

\* the process that serves the requests of a client that sends them in turn
Serial == Min(Procs)

\* persistence: a client sends to 'test-chat-1', marks as read and reads the
\* history, one request at a time, while a socket connects and the application
\* is closed and started again
RestartNext ==
  \/ AfterInit
  \/ HandleConnection("s1")
  \/ \E t \in Contents : Len(messages) < MaxStored /\ SendCreate(Serial, 1, "alice", t)
  \/ SendSave(Serial)
  \/ SendEmit(Serial)
  \/ \E i \in 1..Len(messages), u \in Readers :
       Len(reads) < MaxStored /\ MarkFind(Serial, messages[i].id, u)
  \/ MarkSave(Serial)
  \/ MarkEmit(Serial)
  \/ GetChatHistory(1)
  \/ Restart

SpecRestart == Init /\ [][RestartNext]_vars

\* ------------------------------------------------------------ unread counts
\* createConversationParticipant: a fresh participant record
CreateConversationParticipant(conversationId, userUuid, role) ==
  [conversationId |-> conversationId, userUuid |-> userUuid, role |-> role,
   unreadCount |-> 0, lastReadMessageId |-> NullMessageId]

\* updateParticipantUnreadCount: unreadCount: Math.max(0, count)
UpdateParticipantUnreadCount(participant, count) ==
  [participant EXCEPT !.unreadCount = IF count > 0 THEN count ELSE 0]

\* the marking that takes one message off the count
MarkParticipantAsReadDecrement(participant, messageId) ==
  [participant EXCEPT !.unreadCount = participant.unreadCount - 1,
                      !.lastReadMessageId = messageId]

\* markParticipantAsRead
MarkParticipantAsRead(participant, messageId) ==
  [participant EXCEPT !.unreadCount = 0, !.lastReadMessageId = messageId]

\* the counts updateParticipantUnreadCount is called with
UnreadCounts == (0 - 1)..MaxUnread

\* a participant record as created arrives
InitUnread ==
  /\ now = 0
  /\ messages = <<>>
  /\ reads = <<>>
  /\ chatGateway = FALSE
  /\ connected = {}
  /\ inbox = [s \in Sessions |-> <<>>]
  /\ emitted = <<>>
  /\ task = [p \in Procs |-> Idle]
  /\ conversations = <<>>
  /\ participants = <<>>
  /\ \E u \in Users :
       last = [op |-> "createConversationParticipant",
               participant |-> CreateConversationParticipant(1, u, "member")]

\* the record at hand is replaced by the record the function returns
UpdateUnread(count) ==
  /\ last' = [op |-> "updateParticipantUnreadCount", count |-> count,
              before |-> last.participant,
              participant |-> UpdateParticipantUnreadCount(last.participant, count)]
  /\ UNCHANGED chatVars
  /\ UNCHANGED convVars

MarkRead(messageId) ==
  /\ last' = [op |-> "markParticipantAsRead", messageId |-> messageId,
              before |-> last.participant,
              participant |-> MarkParticipantAsRead(last.participant, messageId)]
  /\ UNCHANGED chatVars
  /\ UNCHANGED convVars

UnreadNext ==
  \/ \E count \in UnreadCounts : UpdateUnread(count)
  \/ \E m \in 1..MaxMessages : MarkRead(m)

SpecUnread == InitUnread /\ [][UnreadNext]_vars

\* ------------------------------------------------------------ agent assignment
\* an agent record; uuid n stands for 'agent-uuid-n'
Agent(uuid, businessId, status, maxConcurrentChats, currentChatCount) ==
  [uuid |-> uuid, businessId |-> businessId, status |-> status,
   maxConcurrentChats |-> maxConcurrentChats, currentChatCount |-> currentChatCount]

\* Object.values(TEST_AGENTS)
TestAgents ==
  << Agent(1, "business-uuid-1", "available", 5, 2),
     Agent(2, "business-uuid-1", "busy", 3, 3),
     Agent(3, "business-uuid-1", "offline", 4, 0),
     Agent(4, "business-uuid-2", "available", 8, 1),
     Agent(5, "business-uuid-2", "available", 8, 0) >>

\* TEST_BUSINESS_SCENARIOS.OPTIMAL_LOAD_SCENARIO.agents
OptimalLoadAgents ==
  << Agent(1, "business-uuid-1", "available", 5, 2),
     Agent(2, "business-uuid-1", "available", 3, 1),
     Agent(3, "business-uuid-1", "available", 4, 3) >>

\* the first two agents of the scenario: A at 2 of 5 and B at 1 of 3
AgentA == OptimalLoadAgents[1]

AgentB == OptimalLoadAgents[2]

BusinessIds == {"business-uuid-1", "business-uuid-2"}

Algorithms == {"round_robin", "least_busy"}

\* agents of either business, available or not, with one or two chats at most
AgentShapes ==
  {[businessId |-> b, status |-> s, maxConcurrentChats |-> m, currentChatCount |-> c] :
     b \in BusinessIds, s \in {"available", "busy"},
     m \in 1..2, c \in 0..2} \
  {[businessId |-> b, status |-> s, maxConcurrentChats |-> 1, currentChatCount |-> 2] :
     b \in BusinessIds, s \in {"available", "busy"}}

\* the lists simulateAgentAssignment is called with: the fixtures, the two
\* agents of the scenario in either order, and every list of up to MaxAgents
\* agents
AgentLists ==
  {TestAgents, OptimalLoadAgents, <<AgentA, AgentB>>, <<AgentB, AgentA>>}
    \cup UNION {{[i \in 1..n |-> [uuid |-> i] @@ f[i]] : f \in [1..n -> AgentShapes]} :
                  n \in 0..MaxAgents}

\* the filter that lets an agent at its capacity through
EligibleUpToCapacity(businessId, agent) ==
  /\ agent.businessId = businessId
  /\ agent.status = "available"
  /\ agent.currentChatCount <= agent.maxConcurrentChats

\* the filter of simulateAgentAssignment
Eligible(businessId, agent) ==
  /\ agent.businessId = businessId
  /\ agent.status = "available"
  /\ agent.currentChatCount < agent.maxConcurrentChats

\* the comparison turned round: the agent with the most chats is kept
RoundRobinMostLoaded(prev, current) ==
  IF prev.currentChatCount >= current.currentChatCount THEN prev ELSE current

\* round_robin: prev.currentChatCount <= current.currentChatCount ? prev : current
RoundRobin(prev, current) ==
  IF prev.currentChatCount <= current.currentChatCount THEN prev ELSE current

\* the comparison by free slots instead of by load
LeastBusyByFreeSlots(prev, current) ==
  IF prev.maxConcurrentChats - prev.currentChatCount
       >= current.maxConcurrentChats - current.currentChatCount
    THEN prev ELSE current

\* least_busy: prevLoad <= currentLoad ? prev : current, the loads being the
\* quotients currentChatCount / maxConcurrentChats
LeastBusy(prev, current) ==
  IF prev.currentChatCount * current.maxConcurrentChats
       <= current.currentChatCount * prev.maxConcurrentChats
    THEN prev ELSE current

RECURSIVE Reduce(_, _, _, _)
\* businessAgents.reduce(...) from place i on, prev being the value so far
Reduce(algorithm, list, i, prev) ==
  IF i > Len(list) THEN prev
  ELSE Reduce(algorithm, list, i + 1,
              IF algorithm = "round_robin"
                THEN RoundRobin(prev, list[i]) ELSE LeastBusy(prev, list[i]))

\* simulateAgentAssignment(businessId, availableAgents, algorithm)
SimulateAgentAssignment(businessId, availableAgents, algorithm) ==
  LET businessAgents == SelectSeq(availableAgents, LAMBDA a : Eligible(businessId, a))
  IN IF Len(businessAgents) = 0
       THEN [success |-> FALSE, error |-> "No available agents",
             fallback |-> "queue_customer"]
       ELSE [success |-> TRUE,
             assignedAgent |-> Reduce(algorithm, businessAgents, 2, businessAgents[1]),
             algorithm |-> algorithm, assignedAt |-> now, businessId |-> businessId]

\* simulateAgentReassignment(conversationId, fromAgentId, toAgentId, reason)
SimulateAgentReassignment(conversationId, fromAgentId, toAgentId, reason) ==
  [conversationId |-> conversationId, fromAgentId |-> fromAgentId,
   toAgentId |-> toAgentId, reason |-> reason, reassignedAt |-> now]

\* simulateAgentWorkloadUpdate(agentId, action, conversationId)
SimulateAgentWorkloadUpdate(agentId, action, conversationId) ==
  [agentId |-> agentId, action |-> action, conversationId |-> conversationId,
   timestamp |-> now, workloadChange |-> IF action = "assign" THEN 1 ELSE 0 - 1]

\* the calls made of the three functions
AssignRequests ==
  {[op |-> "assignRequest", businessId |-> b, agents |-> l, algorithm |-> g] :
     b \in BusinessIds, l \in AgentLists, g \in Algorithms}

WorkloadRequests ==
  {[op |-> "workloadRequest", agentId |-> TestAgents[i].uuid, action |-> a,
    conversationId |-> c] :
     i \in 1..Len(TestAgents), a \in {"assign", "complete"}, c \in ConvIds}

ReassignRequests ==
  {[op |-> "reassignRequest", conversationId |-> c, fromAgentId |-> TestAgents[i].uuid,
    toAgentId |-> TestAgents[j].uuid, reason |-> "agent_unavailable"] :
     c \in ConvIds, i \in 1..Len(TestAgents), j \in 1..Len(TestAgents)}

\* one call arrives
InitAssign ==
  /\ now = 0
  /\ messages = <<>>
  /\ reads = <<>>
  /\ chatGateway = FALSE
  /\ connected = {}
  /\ inbox = [s \in Sessions |-> <<>>]
  /\ emitted = <<>>
  /\ task = [p \in Procs |-> Idle]
  /\ conversations = <<>>
  /\ participants = <<>>
  /\ last \in AssignRequests \cup WorkloadRequests \cup ReassignRequests

AssignAgent ==
  /\ last.op = "assignRequest"
  /\ last' = [op |-> "simulateAgentAssignment", request |-> last,
              result |-> SimulateAgentAssignment(last.businessId, last.agents,
                                                 last.algorithm)]
  /\ UNCHANGED chatVars
  /\ UNCHANGED convVars

WorkloadUpdate ==
  /\ last.op = "workloadRequest"
  /\ last' = [op |-> "simulateAgentWorkloadUpdate", request |-> last,
              result |-> SimulateAgentWorkloadUpdate(last.agentId, last.action,
                                                     last.conversationId)]
  /\ UNCHANGED chatVars
  /\ UNCHANGED convVars

Reassign ==
  /\ last.op = "reassignRequest"
  /\ last' = [op |-> "simulateAgentReassignment", request |-> last,
              result |-> SimulateAgentReassignment(last.conversationId, last.fromAgentId,
                                                   last.toAgentId, last.reason)]
  /\ UNCHANGED chatVars
  /\ UNCHANGED convVars

AssignNext ==
  \/ AssignAgent
  \/ WorkloadUpdate
  \/ Reassign

SpecAssign == InitAssign /\ [][AssignNext]_vars

\* ------------------------------------------------------------ presence
\* calculatePresenceStatus(lastActivity), Date.now() being dateNow
CalculatePresenceStatus(lastActivity, dateNow) ==
  LET timeSinceActivity == dateNow - lastActivity
  IN IF timeSinceActivity > OfflineThreshold THEN "offline"
     ELSE IF timeSinceActivity > AwayThreshold THEN "away"
     ELSE "online"

\* simulateMultiDeviceUser(userUuid, deviceCount), Date.now() being dateNow
SimulateMultiDeviceUser(userUuid, deviceCount, dateNow) ==
  [userUuid |-> userUuid, status |-> "online", lastSeenAt |-> dateNow,
   deviceCount |-> deviceCount, devices |-> [i \in 1..deviceCount |-> i],
   lastActivity |-> dateNow]

\* simulateDeviceDisconnection(device, reason); socketId 0 stands for null
SimulateDeviceDisconnection(device, reason, dateNow) ==
  [deviceId |-> device.deviceId, userUuid |-> device.userUuid,
   disconnectedAt |-> dateNow, disconnectReason |-> reason, socketId |-> 0]

\* the times since the last activity around the two thresholds
ActivityAges ==
  {0, AwayThreshold, AwayThreshold + 1, OfflineThreshold, OfflineThreshold + 1}

\* the calls made of the presence functions, at the time OfflineThreshold + 1
PresenceRequests ==
  {[op |-> "statusRequest", userUuid |-> u, deviceCount |-> n,
    lastActivity |-> (OfflineThreshold + 1) - age, dateNow |-> OfflineThreshold + 1] :
     u \in Users, n \in 0..MaxDevices, age \in ActivityAges}
  \cup {[op |-> "multiDeviceRequest", userUuid |-> u, deviceCount |-> n,
         dateNow |-> OfflineThreshold + 1] : u \in Users, n \in 0..MaxDevices}
  \cup {[op |-> "disconnectRequest", userUuid |-> u, deviceCount |-> n, deviceId |-> d,
         dateNow |-> OfflineThreshold + 1] :
          u \in Users, n \in 1..MaxDevices, d \in 1..MaxDevices}

\* one call arrives
InitPresence ==
  /\ now = 0
  /\ messages = <<>>
  /\ reads = <<>>
  /\ chatGateway = FALSE
  /\ connected = {}
  /\ inbox = [s \in Sessions |-> <<>>]
  /\ emitted = <<>>
  /\ task = [p \in Procs |-> Idle]
  /\ conversations = <<>>
  /\ participants = <<>>
  /\ last \in PresenceRequests

\* the status of a user with deviceCount devices is computed
CalculateStatus ==
  /\ last.op = "statusRequest"
  /\ last' = [op |-> "calculatePresenceStatus", request |-> last,
              status |-> CalculatePresenceStatus(last.lastActivity, last.dateNow)]
  /\ UNCHANGED chatVars
  /\ UNCHANGED convVars

MultiDeviceUser ==
  /\ last.op = "multiDeviceRequest"
  /\ last' = [op |-> "simulateMultiDeviceUser", request |-> last,
              presence |-> SimulateMultiDeviceUser(last.userUuid, last.deviceCount,
                                                   last.dateNow)]
  /\ UNCHANGED chatVars
  /\ UNCHANGED convVars

\* one device of a user with deviceCount devices disconnects: the device
\* record is returned, no presence is read or written
DeviceDisconnection ==
  /\ last.op = "disconnectRequest"
  /\ last.deviceId <= last.deviceCount
  /\ last' = [op |-> "simulateDeviceDisconnection", request |-> last,
              device |-> SimulateDeviceDisconnection(
                           [deviceId |-> last.deviceId, userUuid |-> last.userUuid],
                           "manual", last.dateNow)]
  /\ UNCHANGED chatVars
  /\ UNCHANGED convVars

\* shouldUserBeOffline(lastActivity), Date.now() being dateNow
ShouldUserBeOffline(lastActivity, dateNow) ==
  LET timeSinceActivity == dateNow - lastActivity
  IN timeSinceActivity > OfflineThreshold

\* shouldUserBeAway(lastActivity), Date.now() being dateNow
ShouldUserBeAway(lastActivity, dateNow) ==
  LET timeSinceActivity == dateNow - lastActivity
  IN timeSinceActivity > AwayThreshold /\ timeSinceActivity <= OfflineThreshold

\* simulateInactivityDetection(userUuid, lastActivity, thresholdMinutes)
SimulateInactivityDetection(userUuid, lastActivity, thresholdMinutes, dateNow) ==
  LET timeSinceActivity == dateNow - lastActivity
      thresholdMs == thresholdMinutes * 60 * 1000
  IN [userUuid |-> userUuid, lastActivity |-> lastActivity,
      timeSinceActivity |-> timeSinceActivity, thresholdMs |-> thresholdMs,
      isInactive |-> timeSinceActivity > thresholdMs, detectedAt |-> dateNow,
      recommendedStatus |-> IF timeSinceActivity > 10 * 60 * 1000 THEN "offline"
                            ELSE "away"]

ShouldBeOffline ==
  /\ last.op = "statusRequest"
  /\ last' = [op |-> "shouldUserBeOffline", request |-> last,
              result |-> ShouldUserBeOffline(last.lastActivity, last.dateNow)]
  /\ UNCHANGED chatVars
  /\ UNCHANGED convVars

ShouldBeAway ==
  /\ last.op = "statusRequest"
  /\ last' = [op |-> "shouldUserBeAway", request |-> last,
              result |-> ShouldUserBeAway(last.lastActivity, last.dateNow)]
  /\ UNCHANGED chatVars
  /\ UNCHANGED convVars

\* the default threshold of five minutes
InactivityDetection ==
  /\ last.op = "statusRequest"
  /\ last' = [op |-> "simulateInactivityDetection", request |-> last,
              detection |-> SimulateInactivityDetection(last.userUuid, last.lastActivity,
                                                        5, last.dateNow)]
  /\ UNCHANGED chatVars
  /\ UNCHANGED convVars

PresenceNext ==
  \/ CalculateStatus
  \/ MultiDeviceUser
  \/ DeviceDisconnection
  \/ ShouldBeOffline
  \/ ShouldBeAway
  \/ InactivityDetection

SpecPresence == InitPresence /\ [][PresenceNext]_vars

\* ------------------------------------------------------------ presence over time
\* simulateUserOnline(userUuid), Date.now() being dateNow
SimulateUserOnline(userUuid, dateNow) ==
  [userUuid |-> userUuid, status |-> "online", lastSeenAt |-> dateNow,
   deviceCount |-> 1, lastActivity |-> dateNow]

\* simulateUserAway(userUuid, minutesAgo)
SimulateUserAway(userUuid, minutesAgo, dateNow) ==
  LET awayTime == dateNow - minutesAgo * 60 * 1000
  IN [userUuid |-> userUuid, status |-> "away", lastSeenAt |-> awayTime,
      deviceCount |-> 1, lastActivity |-> awayTime]

\* simulateUserOffline(userUuid, minutesAgo)
SimulateUserOffline(userUuid, minutesAgo, dateNow) ==
  LET offlineTime == dateNow - minutesAgo * 60 * 1000
  IN [userUuid |-> userUuid, status |-> "offline", lastSeenAt |-> offlineTime,
      deviceCount |-> 0, lastActivity |-> offlineTime]

\* simulateActivityHeartbeat(userUuid, deviceId, activityType)
SimulateActivityHeartbeat(userUuid, deviceId, activityType, dateNow) ==
  [userUuid |-> userUuid, deviceId |-> deviceId, activityType |-> activityType,
   timestamp |-> dateNow]

ActivityTypes == {"message", "heartbeat"}

\* the times at which the status is computed: each multiple of the away
\* threshold and the millisecond after it
DecayTimes == {k * AwayThreshold + d : k \in 0..MaxIdle, d \in {0, 1}}

\* a user's presence as simulated at time 0, with the default minutes
InitDecay ==
  /\ now = 0
  /\ messages = <<>>
  /\ reads = <<>>
  /\ chatGateway = FALSE
  /\ connected = {}
  /\ inbox = [s \in Sessions |-> <<>>]
  /\ emitted = <<>>
  /\ task = [p \in Procs |-> Idle]
  /\ conversations = <<>>
  /\ participants = <<>>
  /\ \E u \in Users :
       \E presence \in {SimulateUserOnline(u, 0), SimulateUserAway(u, 6, 0),
                        SimulateUserOffline(u, 15, 0)} :
         last = [op |-> "simulated", presence |-> presence, dateNow |-> 0]

\* time passes without activity and the status is computed again from the
\* last activity
TimePasses(t) ==
  /\ t > last.dateNow
  /\ last' = [op |-> "calculatePresenceStatus",
              presence |-> [last.presence EXCEPT
                 !.status = CalculatePresenceStatus(last.presence.lastActivity, t)],
              dateNow |-> t]
  /\ UNCHANGED chatVars
  /\ UNCHANGED convVars

\* an activity of the user arrives; its timestamp is the last activity from
\* which the status is computed
ActivityHeartbeat(deviceId, activityType) ==
  LET activity == SimulateActivityHeartbeat(last.presence.userUuid, deviceId,
                                            activityType, last.dateNow)
  IN /\ last' = [op |-> "simulateActivityHeartbeat",
                 presence |-> [last.presence EXCEPT
                    !.lastActivity = activity.timestamp,
                    !.lastSeenAt = activity.timestamp,
                    !.status = CalculatePresenceStatus(activity.timestamp, last.dateNow)],
                 dateNow |-> last.dateNow, activity |-> activity]
     /\ UNCHANGED chatVars
     /\ UNCHANGED convVars

DecayNext ==
  \/ \E t \in DecayTimes : TimePasses(t)
  \/ \E d \in 1..MaxDevices, a \in ActivityTypes : ActivityHeartbeat(d, a)

SpecDecay == InitDecay /\ [][DecayNext]_vars

\* ------------------------------------------------------------ listing
\* the keys of the conversations map in insertion order
StoredIds == [c \in 1..Len(conversations) |-> c]

\* a listing that leaves archived conversations out
ConversationsForUserNotArchived(userUuid) ==
  LET ids == SelectSeq(StoredIds, LAMBDA c :
               /\ Includes(conversations[c].participants, userUuid)
               /\ ~conversations[c].archived)
  IN [k \in 1..Len(ids) |-> [id |-> ids[k], conversation |-> conversations[ids[k]]]]

\* the loop of getConversationsForUser over the entries of the map
ConversationsForUser(userUuid) ==
  LET ids == SelectSeq(StoredIds, LAMBDA c :
               Includes(conversations[c].participants, userUuid))
  IN [k \in 1..Len(ids) |-> [id |-> ids[k], conversation |-> conversations[ids[k]]]]

GetConversationsForUser(userUuid) ==
  /\ last' = [op |-> "getConversationsForUser", user |-> userUuid,
              result |-> ConversationsForUser(userUuid)]
  /\ UNCHANGED convVars
  /\ UNCHANGED chatVars

\* the participant lists of the listing test among alice, bob and charlie
ListingLists == {<<"alice", "bob">>, <<"alice", "charlie">>, <<"bob", "charlie">>}

\* conversations are created, changed, archived and listed for each user
ListingNext ==
  \/ \E t \in {"direct", "group"}, l \in ListingLists : CreateConversation(t, l)
  \/ \E c \in ConvIds, u \in Users : AddParticipant(c, u)
  \/ \E c \in ConvIds, u \in Users : RemoveParticipant(c, u)
  \/ \E c \in ConvIds, u \in Users : ArchiveConversation(c, u)
  \/ \E u \in Users : GetConversationsForUser(u)

SpecListing == Init /\ [][ListingNext]_vars

\* ------------------------------------------------------------ delivery
\* the registry next to the gateway: a conversation of alice and charlie,
\* alice sending to it and charlie reading, while the sockets of alice (s1)
\* and of bob (s2) connect
DeliveryNext ==
  \/ AfterInit
  \/ \E s \in Sessions : HandleConnection(s)
  \/ \E t \in {"direct", "group"} : CreateConversation(t, <<"alice", "charlie">>)
  \/ \E c \in ConvIds, t \in Contents :
       Len(messages) < MaxStored /\ SendCreate(Serial, c, "alice", t)
  \/ SendSave(Serial)
  \/ SendEmit(Serial)
  \/ \E i \in 1..Len(messages) :
       Len(reads) < MaxStored /\ MarkFind(Serial, messages[i].id, "charlie")
  \/ MarkSave(Serial)
  \/ MarkEmit(Serial)

SpecDelivery == Init /\ [][DeliveryNext]_vars

\* ------------------------------------------------------------ rejected requests
\* a request of any kind arrives at a running service: the gateway is set,
\* alice's socket is connected and chat 1 holds a message
InitRejection ==
  /\ now = 0
  /\ messages = << [id |-> 1, chatId |-> 1, senderUuid |-> TestUuid,
                    content |-> <<"H", "i">>, timestamp |-> 0] >>
  /\ reads = <<>>
  /\ chatGateway = TRUE
  /\ connected = {"s1"}
  /\ inbox = [s \in Sessions |-> <<>>]
  /\ emitted = <<>>
  /\ task = [p \in Procs |-> Idle]
  /\ conversations = <<>>
  /\ participants = <<>>
  /\ \E c \in RequestChatIds, d \in MessageInputs :
       last = [op |-> "request", chatId |-> c, messageData |-> d]

RejectionNext ==
  \/ PostRequest(Serial)
  \/ SendSave(Serial)
  \/ SendEmit(Serial)
  \/ \E c \in ChatIds : GetChatHistory(c)

SpecRejection == InitRejection /\ [][RejectionNext]_vars

\* ------------------------------------------------------------ failed membership changes
\* a member of every conversation created from the roster, and a user of none
Changers == {Roster[1], Roster[9]}

\* conversations of every size of the roster, and the two users joining and
\* leaving them and an id that is not stored
FailuresNext ==
  \/ \E t \in {"direct", "group"}, l \in RosterLists : CreateConversation(t, l)
  \/ \E c \in AnyConvIds, u \in Changers : AddParticipant(c, u)
  \/ \E c \in AnyConvIds, u \in Changers : RemoveParticipant(c, u)

SpecFailures == Init /\ [][FailuresNext]_vars

\* ------------------------------------------------------------ assignment rounds
\* a capacity that the assignments of a round never reach, so that the set of
\* eligible agents stays the same
SpareCapacity == MaxLoad + MaxAssignments + 1

\* available agents of one business with any initial load
RoundAgents ==
  {Agent(u, "business-uuid-1", "available", SpareCapacity, c) :
     u \in 1..MaxAgents, c \in 0..MaxLoad}

\* the agents of a business in any order, each agent once
RoundLists ==
  {l \in UNION {[1..n -> RoundAgents] : n \in 1..MaxAgents} :
     \A i, j \in 1..Len(l) : l[i].uuid = l[j].uuid => i = j}

\* the agents of a round before its first assignment
InitRounds ==
  /\ now = 0
  /\ messages = <<>>
  /\ reads = <<>>
  /\ chatGateway = FALSE
  /\ connected = {}
  /\ inbox = [s \in Sessions |-> <<>>]
  /\ emitted = <<>>
  /\ task = [p \in Procs |-> Idle]
  /\ conversations = <<>>
  /\ participants = <<>>
  /\ \E l \in RoundLists, g \in Algorithms :
       last = [op |-> "round", businessId |-> "business-uuid-1", algorithm |-> g,
               initial |-> l, agents |-> l, assignments |-> <<>>]

\* one more conversation is assigned: the agent simulateAgentAssignment
\* selects takes it and its currentChatCount moves by the workloadChange of
\* simulateAgentWorkloadUpdate(agent, 'assign', conversation)
AssignConversation(conversationId) ==
  LET result == SimulateAgentAssignment(last.businessId, last.agents, last.algorithm)
  IN /\ Len(last.assignments) < MaxAssignments
     /\ result.success
     /\ LET update == SimulateAgentWorkloadUpdate(result.assignedAgent.uuid, "assign",
                                                  conversationId)
        IN last' = [last EXCEPT
             !.op = "assigned",
             !.agents = [i \in 1..Len(last.agents) |->
                IF last.agents[i].uuid = update.agentId
                  THEN [last.agents[i] EXCEPT
                          !.currentChatCount = @ + update.workloadChange]
                  ELSE last.agents[i]],
             !.assignments = Append(@, update.agentId)]
     /\ UNCHANGED chatVars
     /\ UNCHANGED convVars

RoundsNext == \E c \in ConvIds : AssignConversation(c)

SpecRounds == InitRounds /\ [][RoundsNext]_vars

\* ------------------------------------------------------------ properties
\* the send whose row is messages[i] has returned
Completed(i) ==
  \A p \in Procs :
    task[p].pc = "send_emit" => task[p].savedMessage.id # messages[i].id

\* C1: within one conversation any two stored messages carry distinct
\* timestamps, and a send that starts after another send to the same
\* conversation has returned gets a strictly larger timestamp.
C1_DistinctIncreasingKeys ==
  /\ \A i, j \in 1..Len(messages) :
       (i # j /\ messages[i].chatId = messages[j].chatId)
         => messages[i].timestamp # messages[j].timestamp
  /\ last.op = "sendCreate" =>
       \A i \in 1..Len(messages) :
         (messages[i].chatId = task[last.proc].message.chatId /\ Completed(i))
           => messages[i].timestamp < task[last.proc].message.timestamp

\* the ids of a history answer, in the order of the answer
HistoryIds(h) == [k \in 1..Len(h) |-> h[k].id]

\* the ids of the rows of one chat, in the order the store committed them
CommitOrderIds(chatId) ==
  LET rows == SelectSeq(messages, LAMBDA m : m.chatId = chatId)
  IN [k \in 1..Len(rows) |-> rows[k].id]

\* C2: after concurrent sends to one conversation, getChatHistory answers
\* with every stored message of the conversation exactly once, in the order
\* in which the store committed them.
C2_HistoryInCommitOrder ==
  (/\ last.op = "getChatHistory"
   /\ last.chatId \in ConvIds
   /\ Cardinality(ChatRows(last.chatId)) >= 2)
    => HistoryIds(last.result) = CommitOrderIds(last.chatId)

\* the receipts stored for one (messageId, readerUuid) pair
ReceiptsOf(messageId, readerUuid) ==
  {i \in 1..Len(reads) :
     reads[i].messageId = messageId /\ reads[i].readerUuid = readerUuid}

\* C3: a markAsRead call made when a receipt of the same (messageId,
\* readerUuid) pair is stored returns status 'read' at once, stores no
\* receipt, changes no stored readAt and emits no event.
C3_RepeatMarkAsReadIsNoOp ==
  [][\A p \in Procs, m \in 1..MaxMessages, u \in Readers :
       (ReceiptsOf(m, u) # {} /\ MarkFind(p, m, u))
         => /\ reads' = reads
            /\ emitted' = emitted
            /\ inbox' = inbox
            /\ task'[p] = Idle
            /\ last'.op = "markAsRead"
            /\ last'.status = "read"
            /\ last'.created = FALSE]_vars

\* a repeated markAsRead has returned, at a later time than the stored readAt
C3_Witness ==
  /\ last.op = "markAsRead"
  /\ last.created = FALSE
  /\ Cardinality(ReceiptsOf(last.messageId, last.readerUuid)) = 1
  /\ \A i \in ReceiptsOf(last.messageId, last.readerUuid) : reads[i].readAt < now
  /\ \E k \in 1..Len(emitted) : emitted[k].ev.type = "read-receipt"

\* C4: the receipt store never holds two receipts of the same (messageId,
\* readerUuid) pair.
C4_OneReceiptPerPair ==
  \A i, j \in 1..Len(reads) :
    (reads[i].messageId = reads[j].messageId /\ reads[i].readerUuid = reads[j].readerUuid)
      => i = j

Received(s, ev) == \E i \in 1..Len(inbox[s]) : inbox[s][i] = ev

\* C6: a 'message' event reaches every socket that is connected when it is
\* emitted, whoever its user is: the sockets of the conversation's
\* participants and the sender's own other sockets are among them.
C6_MessageReachesEveryConnectedSession ==
  /\ \A k \in 1..Len(emitted) :
       emitted[k].ev.type = "message" =>
         \A s \in emitted[k].to : Received(s, emitted[k].ev)
  /\ (last.op = "sendMessage" /\ last.emittedEvent) =>
       /\ emitted[Len(emitted)].to = connected
       /\ \A s \in connected : Received(s, emitted[Len(emitted)].ev)

\* alice's message went out while her own device and bob's were connected
C6_Witness ==
  \E k \in 1..Len(emitted) :
    /\ emitted[k].ev.type = "message"
    /\ emitted[k].ev.senderUuid = "alice"
    /\ emitted[k].to = {"s1", "s2"}
    /\ SessionUser["s1"] = "alice"
    /\ Received("s1", emitted[k].ev)
    /\ Received("s2", emitted[k].ev)

\* how often the event was sent to the socket
TimesReceived(s, ev) == Cardinality({i \in 1..Len(inbox[s]) : inbox[s][i] = ev})

\* C7: every event is sent at most once to each socket, a socket that was
\* not connected when an event was emitted never receives it, and a history
\* taken afterwards lists every message that some socket missed.
C7_AtMostOnceAndHistoryReconciles ==
  /\ \A k \in 1..Len(emitted), s \in Sessions :
       /\ TimesReceived(s, emitted[k].ev) <= 1
       /\ s \notin emitted[k].to => ~Received(s, emitted[k].ev)
  /\ last.op = "getChatHistory" =>
       \A k \in 1..Len(emitted) :
         (/\ emitted[k].ev.type = "message"
          /\ emitted[k].ev.chatId = last.chatId
          /\ emitted[k].to # Sessions)
           => \E j \in 1..Len(last.result) : last.result[j].id = emitted[k].ev.id

AccessDeniedErrors ==
  {"Access denied: User is not a participant in this conversation",
   "Access denied: User cannot archive conversation they do not participate in",
   "Access denied: User cannot send message to conversation they do not participate in"}

\* the user is not in the participants of the stored conversation
Outsider(conversationId, userUuid) ==
  /\ Stored(conversationId)
  /\ ~Includes(conversations[conversationId].participants, userUuid)

\* C8: a user who is not in conversation.participants is answered with an
\* access-denied error by archive, by reading and by sending, and a
\* sendMessage call of such a user does not go on to store a message.
C8_NonParticipantGetsAccessDenied ==
  /\ (/\ last.op \in {"getConversation", "archiveConversation",
                      "sendMessageWithAccessControl"}
      /\ Outsider(last.id, last.user))
       => last.error \in AccessDeniedErrors
  /\ last.op = "sendCreate" =>
       ~Outsider(task[last.proc].message.chatId, task[last.proc].message.senderUuid)

\* the users with a participant record of the conversation
RecordedUsers(conversationId) ==
  {participants[conversationId][i].userUuid : i \in 1..Len(participants[conversationId])}

\* C9: validateUserAccess(conversationId, userUuid) is true iff the
\* conversation is stored and the user is one of its current participants: it
\* is true right after the user was added, false right after the user was
\* removed, and false for an id that is not stored.
C9_ValidateAccessTracksMembership ==
  /\ \A c \in AnyConvIds, u \in Users :
       ValidateUserAccess(c, u) <=> (Stored(c) /\ u \in RecordedUsers(c))
  /\ (last.op = "createConversation" /\ last.error = "") =>
       \A u \in Users : ValidateUserAccess(last.id, u) <=> u \in Range(last.list)
  /\ (last.op = "addParticipant" /\ last.error = "") =>
       ValidateUserAccess(last.id, last.user)
  /\ (last.op = "removeParticipant" /\ last.error = "") =>
       ~ValidateUserAccess(last.id, last.user)
  /\ \A u \in Users : ~ValidateUserAccess(MaxConversations + 1, u)

\* a user was removed from a conversation that keeps other participants,
\* one of whom was added after creation
C9_Witness ==
  /\ last.op = "removeParticipant"
  /\ last.error = ""
  /\ ~ValidateUserAccess(last.id, last.user)
  /\ \E u \in Users : ValidateUserAccess(last.id, u)
  /\ \E i \in 1..Len(participants[last.id]) :
       participants[last.id][i].userUuid = conversations[last.id].participants[Len(conversations[last.id].participants)]

\* C10 as stated: every sendMessageWithAccessControl on an archived
\* conversation fails with 'Cannot send message to archived conversation',
\* whoever sends.
C10_EverySendToArchivedIsArchivedError ==
  (/\ last.op = "sendMessageWithAccessControl"
   /\ Stored(last.id)
   /\ conversations[last.id].archived)
    => last.error = "Cannot send message to archived conversation"

\* C10 amended: an archived conversation stays archived; a send to it fails
\* with the archived error for a participant and with the access-denied
\* error for anyone else; a participant still reads it.
C10_ArchivedRejectsSendsKeepsReads ==
  [][/\ \A c \in 1..Len(conversations) :
          conversations[c].archived =>
            (c <= Len(conversations') /\ conversations'[c].archived)
     /\ (last'.op = "archiveConversation" /\ last'.error = "") =>
          conversations'[last'.id].archived
     /\ (/\ last'.op = "sendMessageWithAccessControl"
         /\ Stored(last'.id)
         /\ conversations[last'.id].archived)
          => /\ last'.error =
                  (IF Includes(conversations[last'.id].participants, last'.user)
                     THEN "Cannot send message to archived conversation"
                     ELSE "Access denied: User cannot send message to conversation they do not participate in")
             /\ conversations' = conversations
     /\ (/\ last'.op = "getConversation"
         /\ Stored(last'.id)
         /\ conversations[last'.id].archived
         /\ Includes(conversations[last'.id].participants, last'.user))
          => /\ last'.error = ""
             /\ last'.result = conversations[last'.id]
             /\ last'.result.archived]_vars

\* a participant other than the archiver was refused with the archived error
C10_Witness ==
  /\ last.op = "sendMessageWithAccessControl"
  /\ last.error = "Cannot send message to archived conversation"
  /\ conversations[last.id].archived
  /\ conversations[last.id].archivedBy # last.user
  /\ Includes(conversations[last.id].participants, last.user)
\* ------------------------------------------------------------ registry properties
\* C11: once a conversation is archived, every later addParticipant and
\* removeParticipant on its id fails and its participant list never changes
\* again (the formula asks for a failure of any kind).
C11_ArchivedRejectsMembershipChanges ==
  [][\A c \in 1..Len(conversations) :
       conversations[c].archived =>
         /\ conversations'[c].participants = conversations[c].participants
         /\ (last'.op \in {"addParticipant", "removeParticipant"} /\ last'.id = c)
              => last'.error # ""]_vars

\* C12: every stored conversation of type group has between 2 and 8
\* participants.
C12_GroupHasTwoToEightParticipants ==
  \A c \in 1..Len(conversations) :
    conversations[c].type = "group" =>
      /\ Len(conversations[c].participants) >= 2
      /\ Len(conversations[c].participants) <= 8

InvalidParticipantCountErrors ==
  {"Direct conversations must have exactly 2 participants",
   "Group conversations must have at least 2 participants",
   "Group conversations cannot have more than 8 participants",
   "Business conversations must have at least 2 participants"}

DuplicateParticipantError == "Conversation cannot have duplicate participants"

\* the cardinality rule of the conversation type
CountRule(type, list) ==
  IF type = "direct" THEN Len(list) = 2
  ELSE IF type = "group" THEN Len(list) >= 2 /\ Len(list) <= 8
  ELSE Len(list) >= 2

NoRepeats(list) == \A i, j \in 1..Len(list) : list[i] = list[j] => i = j

\* C13 as stated: createConversation of a direct or group conversation
\* succeeds iff the length of the list satisfies the type's cardinality rule,
\* and fails with an invalid-participant-count error otherwise.
C13_CreationSucceedsIffCountRule ==
  (last.op = "createConversation" /\ last.type \in {"direct", "group"})
    => /\ last.error = "" <=> CountRule(last.type, last.list)
       /\ ~CountRule(last.type, last.list)
            => last.error \in InvalidParticipantCountErrors

\* C13 amended: createConversation of a direct or group conversation with a
\* list without repeats succeeds iff the length of the list satisfies the
\* type's cardinality rule; every other length fails with an
\* invalid-participant-count error; a failed call stores nothing and a
\* successful one stores the conversation with the list it was given.
C13_CreationOfDistinctListIffCountRule ==
  [][(last'.op = "createConversation" /\ last'.type \in {"direct", "group"})
       => /\ NoRepeats(last'.list)
               => (last'.error = "" <=> CountRule(last'.type, last'.list))
          /\ ~CountRule(last'.type, last'.list)
               => last'.error \in InvalidParticipantCountErrors
          /\ last'.error # ""
               => (conversations' = conversations /\ participants' = participants)
          /\ last'.error = ""
               => /\ Len(conversations') = Len(conversations) + 1
                  /\ last'.id = Len(conversations')
                  /\ conversations'[last'.id].type = last'.type
                  /\ conversations'[last'.id].participants = last'.list
                  /\ SubSeq(conversations', 1, Len(conversations)) = conversations]_vars

\* a group of 8 distinct users was created
C13_Witness ==
  /\ last.op = "createConversation"
  /\ last.type = "group"
  /\ last.error = ""
  /\ Len(last.list) = 8
  /\ Len(conversations[last.id].participants) = 8

\* C14 as stated: createConversation with a list that holds a user more than
\* once fails with the duplicate-participant error, whatever the type and
\* the length of the list.
C14_RepeatFailsWithDuplicateParticipant ==
  (last.op = "createConversation" /\ ~NoRepeats(last.list))
    => last.error = DuplicateParticipantError

\* C14 amended: createConversation with a list that holds a user more than
\* once stores nothing and fails, with the duplicate-participant error when
\* the length of the list satisfies the type's cardinality rule and with an
\* invalid-participant-count error when it does not.
C14_RepeatFailsAfterCountRule ==
  [][(last'.op = "createConversation" /\ ~NoRepeats(last'.list))
       => /\ IF CountRule(last'.type, last'.list)
               THEN last'.error = DuplicateParticipantError
               ELSE last'.error \in InvalidParticipantCountErrors
          /\ conversations' = conversations
          /\ participants' = participants]_vars

\* a group list of valid length whose repeat is not in neighbouring places
\* was refused as a duplicate
C14_Witness ==
  /\ last.op = "createConversation"
  /\ last.type = "group"
  /\ Len(last.list) >= 3
  /\ last.list[1] = last.list[Len(last.list)]
  /\ last.error = DuplicateParticipantError
  /\ conversations = <<>>

TypeImmutableErrors ==
  {"Cannot join direct conversations", "Cannot leave direct conversations"}

\* C15 as stated: every addParticipant and removeParticipant on a direct
\* conversation fails with the type-immutable error, for a member and for a
\* non-member alike.
C15_DirectChangesFailTypeImmutable ==
  (/\ last.op \in {"addParticipant", "removeParticipant"}
   /\ Stored(last.id)
   /\ conversations[last.id].type = "direct")
    => last.error \in TypeImmutableErrors

\* C15 amended: on a direct conversation addParticipant fails with the
\* type-immutable error for a non-member and with already-member for a
\* member, removeParticipant fails with the type-immutable error for a member
\* and with not-member for a non-member; a direct conversation is created
\* with the 2 users of its list and no step changes its participants.
C15_DirectKeepsItsTwoParticipants ==
  [][/\ \A c \in 1..Len(conversations) :
          conversations[c].type = "direct" =>
            /\ conversations'[c].type = "direct"
            /\ conversations'[c].participants = conversations[c].participants
            /\ participants'[c] = participants[c]
     /\ (/\ last'.op = "createConversation"
         /\ last'.type = "direct"
         /\ last'.error = "")
          => /\ conversations'[last'.id].participants = last'.list
             /\ Len(last'.list) = 2
             /\ last'.list[1] # last'.list[2]
     /\ (/\ last'.op = "addParticipant"
         /\ Stored(last'.id)
         /\ conversations[last'.id].type = "direct")
          => last'.error =
               (IF Includes(conversations[last'.id].participants, last'.user)
                  THEN "User is already a participant"
                  ELSE "Cannot join direct conversations")
     /\ (/\ last'.op = "removeParticipant"
         /\ Stored(last'.id)
         /\ conversations[last'.id].type = "direct")
          => last'.error =
               (IF Includes(conversations[last'.id].participants, last'.user)
                  THEN "Cannot leave direct conversations"
                  ELSE "User is not a participant")]_vars

\* a member of a direct conversation was refused leave to go
C15_Witness ==
  /\ last.op = "removeParticipant"
  /\ last.error = "Cannot leave direct conversations"
  /\ conversations[last.id].type = "direct"
  /\ Includes(conversations[last.id].participants, last.user)
  /\ Len(conversations[last.id].participants) = 2

\* C16: no stored conversation lists a user twice in participants, and no
\* conversation has two participant records of one user.
C16_NoDuplicateParticipants ==
  \A c \in 1..Len(conversations) :
    /\ NoRepeats(conversations[c].participants)
    /\ \A i, j \in 1..Len(participants[c]) :
         participants[c][i].userUuid = participants[c][j].userUuid => i = j

\* a member of a group of several users was refused a second membership
C16_Witness ==
  /\ last.op = "addParticipant"
  /\ last.error = "User is already a participant"
  /\ conversations[last.id].type = "group"
  /\ Len(conversations[last.id].participants) >= 2
  /\ Cardinality({i \in 1..Len(participants[last.id]) :
                    participants[last.id][i].userUuid = last.user}) = 1

C18_ArchivalIsTerminal ==
  [][\A c \in 1..Len(conversations) :
       /\ c <= Len(conversations')
       /\ conversations[c].archived =>
            /\ conversations'[c].archived
            /\ conversations'[c].archivedAt = conversations[c].archivedAt]_vars
\* ------------------------------------------------------------ controller properties
UserNotFound == "User not found"

InvalidUuidFormat == "Invalid user UUID format"

EmptyContent == "Message content is required and cannot be empty"

ContentTooLongError ==
  "Message content is too long. Maximum 10,000 characters allowed"

ChatErrors == {"Invalid chat ID", "Chat not found"}

\* the sender of the request is the one the service does not know
SenderMissing(d) == "senderUuid" \in DOMAIN d /\ d.senderUuid = NonExistentUserUuid

\* the request has no sender, or one in neither of the accepted forms
SenderMalformed(d) == "senderUuid" \notin DOMAIN d \/ ~IsValidUUID(d.senderUuid)

\* the request has no content, or content of no characters or white space only
ContentBlank(d) ==
  "content" \notin DOMAIN d \/ \A i \in 1..Len(d.content) : d.content[i] \in Whitespace

\* the content has more characters than the limit
ContentOverLimit(d) == "content" \in DOMAIN d /\ Len(d.content) > 10000

\* the chat id is blank or names the chat that does not exist
ChatInvalid(c) == c \in {BlankChatId, InvalidChatId}

\* C19: the error of a rejected request is that of the first check it
\* fails, in the order sender existence, sender UUID format, content
\* non-empty, content length, chat id; a request that fails none is accepted
\* and its content goes through sanitizeContent last. So a request of the
\* non-existent sender is answered 'User not found' whatever else is wrong.
C19_FirstFailingCheckIsReported ==
  last.op = "postMessage" =>
    LET d == last.messageData
    IN /\ SenderMissing(d) => last.error = UserNotFound
       /\ (~SenderMissing(d) /\ SenderMalformed(d)) => last.error = InvalidUuidFormat
       /\ (~SenderMissing(d) /\ ~SenderMalformed(d) /\ ContentBlank(d))
            => last.error = EmptyContent
       /\ (/\ ~SenderMissing(d) /\ ~SenderMalformed(d)
           /\ ~ContentBlank(d) /\ ContentOverLimit(d))
            => last.error = ContentTooLongError
       /\ (/\ ~SenderMissing(d) /\ ~SenderMalformed(d)
           /\ ~ContentBlank(d) /\ ~ContentOverLimit(d) /\ ChatInvalid(last.chatId))
            => last.error \in ChatErrors
       /\ (/\ ~SenderMissing(d) /\ ~SenderMalformed(d)
           /\ ~ContentBlank(d) /\ ~ContentOverLimit(d) /\ ~ChatInvalid(last.chatId))
            => /\ last.error = ""
               /\ \E p \in Procs :
                    /\ task[p].pc = "send_save"
                    /\ task[p].message.content = SanitizeContent(d.content)
       /\ last.error # "" => (messages = <<>> /\ \A p \in Procs : task[p] = Idle)

\* the non-existent sender was answered 'User not found' on a request whose
\* content and chat id are invalid as well
C19_Witness ==
  /\ last.op = "postMessage"
  /\ last.error = UserNotFound
  /\ ~IsValidUUID(last.messageData.senderUuid)
  /\ ContentBlank(last.messageData)
  /\ ChatInvalid(last.chatId)

\* C20: from a valid sender, a request without content or with content of
\* white space only is answered with the empty-content error, one with
\* non-blank content of more than 10,000 characters with the too-long error,
\* and one with non-blank content of up to 10,000 characters to a valid chat
\* is accepted and sent.
C20_ContentEmptyTooLongOrAccepted ==
  /\ (/\ last.op = "postMessage"
      /\ ~SenderMissing(last.messageData)
      /\ ~SenderMalformed(last.messageData))
       => /\ ContentBlank(last.messageData) => last.error = EmptyContent
          /\ (~ContentBlank(last.messageData) /\ Len(last.messageData.content) > 10000)
               => last.error = ContentTooLongError
          /\ (/\ ~ContentBlank(last.messageData)
              /\ Len(last.messageData.content) >= 1
              /\ Len(last.messageData.content) <= 10000
              /\ ~ChatInvalid(last.chatId))
               => /\ last.error = ""
                  /\ \E p \in Procs : task[p].pc = "send_save"
  /\ last.op = "sendMessage" => (last.status = "sent" /\ Len(messages) = 1)

\* content of exactly 10,000 characters was accepted and stored whole
C20_Witness ==
  /\ last.op = "sendMessage"
  /\ last.status = "sent"
  /\ Len(messages) = 1
  /\ messages[1].id = last.messageId
  /\ Len(messages[1].content) = 10000

\* a match of /<script[^>]*>[\s\S]*?<\/script>/i starts somewhere in the content
HasScriptSpan(content) ==
  \E k \in 1..Len(content) : ScriptEnd(content, k) # 0

\* the contents of the rows of the messages table
StoredContents == {messages[i].content : i \in 1..Len(messages)}

\* C21: sanitizing a stored content again changes nothing, and no stored
\* content contains a <script>...</script> span.
C21_StoredContentIsSanitizedFixpoint ==
  \A c \in StoredContents :
    /\ SanitizeContent(c) = c
    /\ ~HasScriptSpan(c)

\* C22: an answer of getChatHistory lists the stored messages of the requested
\* chat in ascending order of their timestamps, and it is the empty list when
\* no message has been appended to that chat.
C22_HistoryAscendingAndEmptyForNewChat ==
  last.op = "getChatHistory" =>
    LET h == last.result
    IN /\ \A i, j \in 1..Len(h) : i < j => h[i].timestamp <= h[j].timestamp
       /\ {h[i].id : i \in 1..Len(h)} = {messages[i].id : i \in ChatRows(last.chatId)}
       /\ ChatRows(last.chatId) = {} => h = <<>>

\* C23: a markAsRead call that returns leaves a receipt of its reader stored,
\* receipts stay stored, and an answer of getChatHistory lists in each
\* message's readBy every reader with a stored receipt of that message, so
\* after the calls of several readers have returned, in any interleaving,
\* readBy has an entry for each of them.
C23_ReadByListsEveryReader ==
  [][/\ \A m \in 1..MaxMessages, u \in Readers :
          ReceiptsOf(m, u) # {} => ReceiptsOf(m, u) \subseteq {i \in 1..Len(reads') :
              reads'[i].messageId = m /\ reads'[i].readerUuid = u}
     /\ last'.op = "markAsRead" =>
          \E i \in 1..Len(reads') :
            reads'[i].messageId = last'.messageId /\ reads'[i].readerUuid = last'.readerUuid
     /\ last'.op = "getChatHistory" =>
          \A k \in 1..Len(last'.result), u \in Readers :
            ReceiptsOf(last'.result[k].id, u) # {}
              => u \in DOMAIN last'.result[k].readBy]_vars

\* the history of a chat shows a message read by both readers, whose calls
\* stored their receipts in either order
C23_Witness ==
  /\ last.op = "getChatHistory"
  /\ Len(reads) = 2
  /\ reads[1].readerUuid = "charlie"
  /\ \E k \in 1..Len(last.result) :
       /\ "readBy" \in DOMAIN last.result[k]
       /\ DOMAIN last.result[k].readBy = Readers

\* the history entry of a stored row: same id, sender and content, and a
\* readBy entry for every reader with a stored receipt of the message
ListsRow(h, m) ==
  \E k \in 1..Len(h) :
    /\ h[k].id = m.id
    /\ h[k].senderUuid = m.senderUuid
    /\ h[k].content = m.content
    /\ DOMAIN h[k].readBy = {u \in Readers : ReceiptsOf(m.id, u) # {}}
    /\ \A u \in DOMAIN h[k].readBy :
         \E i \in ReceiptsOf(m.id, u) : h[k].readBy[u] = reads[i].readAt

\* C24: a message acknowledged as 'sent' is a stored row; a restart keeps
\* every stored row and receipt as it is and leaves no socket connected, no
\* request in flight and the gateway reference unset; no step changes or
\* removes a stored row or receipt; and an answer of getChatHistory lists
\* every stored row of the chat with its id, sender, content and readBy.
C24_StoredDataSurvivesRestart ==
  [][/\ last'.op = "sendMessage" =>
          \E i \in 1..Len(messages') : messages'[i].id = last'.messageId
     /\ last'.op = "restart" =>
          /\ messages' = messages
          /\ reads' = reads
          /\ connected' = {}
          /\ ~chatGateway'
          /\ \A p \in Procs : task'[p] = Idle
     /\ Len(messages) <= Len(messages') /\ SubSeq(messages', 1, Len(messages)) = messages
     /\ Len(reads) <= Len(reads') /\ SubSeq(reads', 1, Len(reads)) = reads
     /\ last'.op = "getChatHistory" =>
          \A i \in ChatRows(last'.chatId) : ListsRow(last'.result, messages[i])]_vars

\* after a restart, with the gateway still unset, the history lists a message
\* that was emitted to a connected socket and read before the restart
C24_Witness ==
  /\ last.op = "getChatHistory"
  /\ ~chatGateway
  /\ connected = {}
  /\ \E k \in 1..Len(last.result), e \in 1..Len(emitted) :
       /\ emitted[e].ev.type = "message"
       /\ emitted[e].to # {}
       /\ emitted[e].ev.id = last.result[k].id
       /\ "readBy" \in DOMAIN last.result[k]
       /\ DOMAIN last.result[k].readBy # {}

\* the unread counts of a conversation after a send by the sender: one more
\* for every other participant, the sender's own as before
CountsAfterSend(conversationId, senderUuid) ==
  [i \in 1..Len(participants[conversationId]) |->
     IF participants[conversationId][i].userUuid = senderUuid
       THEN participants[conversationId][i].unreadCount
       ELSE participants[conversationId][i].unreadCount + 1]

\* C25: a successful send by a participant to a stored conversation, through
\* sendMessageWithAccessControl or through ChatService.sendMessage, increases
\* the unread count of every other participant by exactly 1 and leaves the
\* sender's own unread count unchanged.
C25_SendIncrementsOthersUnread ==
  [][/\ (last'.op = "sendMessageWithAccessControl" /\ last'.error = "")
          => /\ Len(participants'[last'.id]) = Len(participants[last'.id])
             /\ \A i \in 1..Len(participants[last'.id]) :
                  participants'[last'.id][i].unreadCount
                    = CountsAfterSend(last'.id, last'.user)[i]
     /\ \A p \in Procs :
          (/\ SendEmit(p)
           /\ Stored(task[p].savedMessage.chatId)
           /\ Includes(conversations[task[p].savedMessage.chatId].participants,
                       task[p].savedMessage.senderUuid))
            => LET c == task[p].savedMessage.chatId
               IN \A i \in 1..Len(participants[c]) :
                    participants'[c][i].unreadCount
                      = CountsAfterSend(c, task[p].savedMessage.senderUuid)[i]]_vars

\* C26: marking as read gives a record with unreadCount 0 and the given
\* message as lastReadMessageId, marking again with the same message gives
\* the same record, and no record has a negative unreadCount.
C26_MarkReadResetsIdempotentNonNegative ==
  [][/\ last'.op = "markParticipantAsRead" =>
          /\ last'.participant.unreadCount = 0
          /\ last'.participant.lastReadMessageId = last'.messageId
          /\ last'.participant =
               [last.participant EXCEPT !.unreadCount = 0,
                                        !.lastReadMessageId = last'.messageId]
          /\ (last.op = "markParticipantAsRead" /\ last.messageId = last'.messageId)
               => last'.participant = last.participant
     /\ last'.participant.unreadCount >= 0]_vars

\* a record with unread messages was marked as read, and marked again with
\* the same message
C26_Witness ==
  /\ last.op = "markParticipantAsRead"
  /\ last.before.lastReadMessageId = last.messageId
  /\ last.before.unreadCount = 0
  /\ last.participant = last.before
  /\ last.participant.userUuid = "bob"

\* the agent of TEST_AGENTS with the given uuid
TestAgent(uuid) ==
  TestAgents[CHOOSE i \in 1..Len(TestAgents) : TestAgents[i].uuid = uuid]

C28_AssignReturnsEligibleOrQueues ==
  [][AssignAgent =>
       LET q == last
           r == last'.result
           eligible == {i \in 1..Len(q.agents) :
                          /\ q.agents[i].businessId = q.businessId
                          /\ q.agents[i].status = "available"
                          /\ q.agents[i].currentChatCount < q.agents[i].maxConcurrentChats}
       IN /\ r.success <=> eligible # {}
          /\ r.success => \E i \in eligible : r.assignedAgent = q.agents[i]
          /\ ~r.success => /\ r.error = "No available agents"
                           /\ r.fallback = "queue_customer"
                           /\ "assignedAgent" \notin DOMAIN r
          /\ UNCHANGED <<chatVars, convVars>>]_vars

\* an assignment was refused although the list holds an available agent of
\* the business, who is at capacity
C28_Witness ==
  /\ last.op = "simulateAgentAssignment"
  /\ ~last.result.success
  /\ \E i \in 1..Len(last.request.agents) :
       /\ last.request.agents[i].businessId = last.request.businessId
       /\ last.request.agents[i].status = "available"
       /\ last.request.agents[i].currentChatCount
            = last.request.agents[i].maxConcurrentChats

\* the agent the given policy selects among agents A and B in the given order
Selected(algorithm, list) ==
  SimulateAgentAssignment("business-uuid-1", list, algorithm).assignedAgent

\* C29: on the lists of agent A (2 of 5) and agent B (1 of 3), both available
\* for the same business, round_robin and least_busy select different agents.
C29_PoliciesDivergeOnFixture ==
  (last.op = "simulateAgentAssignment"
     /\ last.request.businessId = "business-uuid-1"
     /\ last.request.agents \in {<<AgentA, AgentB>>, <<AgentB, AgentA>>})
    => Selected("round_robin", last.request.agents)
         # Selected("least_busy", last.request.agents)

\* C29 as amended: on that fixture both policies select agent B, whose
\* absolute load (1 against 2) and load ratio (1/3 against 2/5) are both the
\* lower ones.
C29_BothPoliciesSelectAgentB ==
  (last.op = "simulateAgentAssignment"
     /\ last.request.businessId = "business-uuid-1"
     /\ last.request.agents \in {<<AgentA, AgentB>>, <<AgentB, AgentA>>})
    => /\ last.result.success
       /\ last.result.assignedAgent = AgentB
       /\ Selected("round_robin", last.request.agents) = AgentB
       /\ Selected("least_busy", last.request.agents) = AgentB

\* least_busy has answered on the fixture, A listed first
C29_Witness ==
  /\ last.op = "simulateAgentAssignment"
  /\ last.request.businessId = "business-uuid-1"
  /\ last.request.agents = <<AgentA, AgentB>>
  /\ last.request.algorithm = "least_busy"
  /\ last.result.assignedAgent.uuid = 2

\* C30: a presence with device count 0 has status offline however recent its
\* last activity is, and the status computed for a user who still has a
\* device, as after the disconnect of one device among several, is not
\* offline unless the last activity is older than the offline threshold.
C30_NoDeviceMeansOffline ==
  /\ last.op = "calculatePresenceStatus" =>
       /\ last.request.deviceCount = 0 => last.status = "offline"
       /\ (/\ last.request.deviceCount > 0
           /\ last.request.dateNow - last.request.lastActivity <= OfflineThreshold)
            => last.status # "offline"
  /\ last.op = "simulateMultiDeviceUser" =>
       (last.presence.deviceCount = 0 => last.presence.status = "offline")

\* ------------------------------------------------------------ presence properties
\* the status the thresholds give when each starts at its own minute
StatusFromMinute(timeSinceActivity) ==
  IF timeSinceActivity < AwayThreshold THEN "online"
  ELSE IF timeSinceActivity < OfflineThreshold THEN "away"
  ELSE "offline"

\* C31: for a user with at least one device the computed presence is online
\* below 5 minutes since the last activity, away from 5 minutes and offline
\* from 10 minutes, and shouldUserBeAway and shouldUserBeOffline agree with
\* calculatePresenceStatus at every elapsed time, exactly 5 and exactly 10
\* minutes included.
C31_ThresholdsStartAtFiveAndTenMinutes ==
  LET r == last.request
  IN /\ (last.op = "calculatePresenceStatus" /\ r.deviceCount > 0)
          => last.status = StatusFromMinute(r.dateNow - r.lastActivity)
     /\ last.op = "shouldUserBeAway"
          => (last.result <=> CalculatePresenceStatus(r.lastActivity, r.dateNow) = "away")
     /\ last.op = "shouldUserBeOffline"
          => (last.result <=> CalculatePresenceStatus(r.lastActivity, r.dateNow) = "offline")

\* online, away, offline in the order of the state machine
StatusRank(status) ==
  CASE status = "online" -> 0 [] status = "away" -> 1 [] status = "offline" -> 2

ListedIds(result) == {result[k].id : k \in 1..Len(result)}

\* C33: getConversationsForUser returns exactly the conversations whose
\* current participants include the user, after any sequence of create, add,
\* remove and archive: each such conversation once and as stored, archived
\* ones included, those the user was removed from excluded.
C33_ListingIsExactlyTheUsersConversations ==
  last.op = "getConversationsForUser" =>
    /\ ListedIds(last.result)
         = {c \in 1..Len(conversations) : last.user \in RecordedUsers(c)}
    /\ \A k \in 1..Len(last.result) :
         /\ last.result[k].conversation = conversations[last.result[k].id]
         /\ \A j \in 1..Len(last.result) :
              last.result[j].id = last.result[k].id => j = k
    /\ \A c \in 1..Len(conversations) :
         (conversations[c].archived /\ last.user \in RecordedUsers(c))
           => c \in ListedIds(last.result)

\* an archived group that lost a member is listed for the member who stayed
C33_Witness ==
  /\ last.op = "getConversationsForUser"
  /\ \E k \in 1..Len(last.result) :
       /\ last.result[k].conversation.archived
       /\ last.result[k].conversation.type = "group"
       /\ Len(last.result[k].conversation.participants) = 1
       /\ last.result[k].conversation.participants[1] = last.user

\* ------------------------------------------------------------ delivery properties
\* the conversation an event belongs to; 0 when its message is not stored
EventChat(ev) ==
  IF ev.type = "message" THEN ev.chatId
  ELSE IF ev.messageId \in 1..Len(messages) THEN messages[ev.messageId].chatId
  ELSE 0

\* C34: a 'message' or 'read-receipt' event is never delivered to a connected
\* session whose user is not an active participant of the conversation the
\* message belongs to.
C34_EventsReachOnlyParticipants ==
  \A s \in Sessions :
    \A i \in 1..Len(inbox[s]) :
      Stored(EventChat(inbox[s][i]))
        => SessionUser[s] \in RecordedUsers(EventChat(inbox[s][i]))

\* C35: no stored message has empty or whitespace-only content: for every
\* accepted send the content persisted after sanitization is non-blank and at
\* most 10,000 characters long.
C35_StoredContentIsNonBlankWithinLimit ==
  \A i \in 1..Len(messages) :
    /\ Trim(messages[i].content) # <<>>
    /\ Len(messages[i].content) <= 10000

\* the ids of the stored messages
StoredMessageIds == {messages[j].id : j \in 1..Len(messages)}

\* C36: every stored read receipt refers to a message that exists in the
\* message store: markAsRead with a messageId that sendMessage never returned
\* creates no receipt and emits no read-receipt event.
C36_ReceiptsReferToStoredMessages ==
  /\ \A i \in 1..Len(reads) : reads[i].messageId \in StoredMessageIds
  /\ \A k \in 1..Len(emitted) :
       emitted[k].ev.type = "read-receipt"
         => emitted[k].ev.messageId \in StoredMessageIds

\* C37: a send-message request rejected by any validation step has no effect:
\* no message is stored, no call of the service is started, no event reaches
\* any session, and the history of every chat is the same as before.
C37_RejectedSendHasNoEffect ==
  [][ (last'.op = "postMessage" /\ last'.error # "")
        => /\ UNCHANGED <<messages, reads, task, inbox, emitted>>
           /\ UNCHANGED convVars
           /\ \A c \in ChatIds : ChatHistory(c)' = ChatHistory(c)
    ]_vars

\* a rejected request at a service that holds a message and has a socket connected
C37_Witness ==
  /\ last.op = "postMessage"
  /\ last.error = "Message content is too long. Maximum 10,000 characters allowed"
  /\ Len(messages) = 1
  /\ connected # {}
  /\ \A s \in Sessions : inbox[s] = <<>>

\* ------------------------------------------------------------ membership properties
\* C38: every failed addParticipant or removeParticipant (already a member,
\* not a member, direct conversation, group at capacity, unknown id) leaves
\* the stored conversations and their participant records exactly as they
\* were before the call.
C38_FailedMembershipChangeHasNoEffect ==
  [][ (last'.op \in {"addParticipant", "removeParticipant"} /\ last'.error # "")
        => /\ conversations' = conversations
           /\ participants' = participants
    ]_vars

\* a user was refused by a full group, which keeps its eight participants
\* and eight records
C38_Witness ==
  /\ last.op = "addParticipant"
  /\ last.error = "Group conversation is at maximum capacity"
  /\ Stored(last.id)
  /\ Len(conversations[last.id].participants) = 8
  /\ Len(participants[last.id]) = 8
  /\ last.user \notin RecordedUsers(last.id)

\* C39: after any sequence of createConversation, addParticipant and
\* removeParticipant, the set of users in a conversation's participant
\* records equals the set of users in that conversation's participants list.
C39_RecordsMatchParticipantsList ==
  /\ Len(participants) = Len(conversations)
  /\ \A c \in 1..Len(conversations) :
       RecordedUsers(c) = Range(conversations[c].participants)

\* a group that gained a user and then lost one of its first participants
C39_Witness ==
  /\ last.op = "removeParticipant"
  /\ last.error = ""
  /\ Includes(conversations[last.id].participants, Roster[9])
  /\ ~Includes(conversations[last.id].participants, Roster[1])
  /\ Roster[9] \in RecordedUsers(last.id)
  /\ Roster[1] \notin RecordedUsers(last.id)

\* ------------------------------------------------------------ round-robin properties
\* the number of assignments an agent received in the round
AssignmentsOf(uuid) ==
  Cardinality({k \in 1..Len(last.assignments) : last.assignments[k] = uuid})

\* the agents that received an assignment
AssignedAgents == {last.assignments[k] : k \in 1..Len(last.assignments)}

\* all agents of the round started with the same currentChatCount
EqualInitialLoads ==
  \A i, j \in 1..Len(last.initial) :
    last.initial[i].currentChatCount = last.initial[j].currentChatCount

====
